---- MODULE Spec2Model ----
(***************************************************************************)
(* A model of the reference-resolution engine of tartam-rag:                *)
(*   backend/app/query_context.py  (reference parser, session carry-over,  *)
(*                                  unit/section matching)                  *)
(*   backend/app/retrieval.py      (reciprocal-rank fusion)                 *)
(*   backend/app/chat.py           (ChatService.respond and its constraint, *)
(*                                  diversification and ambiguity steps)    *)
(*                                                                         *)
(* Text is modelled character by character: a Python str is a sequence of  *)
(* one-character strings.  Characters outside ASCII are written by name:   *)
(* "dev4" is DEVANAGARI DIGIT FOUR, "guj4" is GUJARATI DIGIT FOUR and      *)
(* "nbsp" is NO-BREAK SPACE.  The alphabet of the model is ASCII letters,  *)
(* ASCII digits, these digits, blank, nbsp and the punctuation - ( ) ?.    *)
(* An optional value (Python's None or a value) is a sequence of length 0  *)
(* or 1.                                                                   *)
(***************************************************************************)
EXTENDS Integers, Sequences, FiniteSets, TLC

VARIABLES
    session,         \* the session_context row of the one session (None before the first turn)
    llm_enabled,     \* self.llm.enabled, fixed when the service is built
    message,         \* ChatRequest.message of the last turn
    granth_filter,   \* ChatRequest.filters.granth of the last turn (optional)
    prakran_filter,  \* ChatRequest.filters.prakran of the last turn (optional)
    top_k,           \* ChatRequest.top_k of the last turn (optional)
    prior_context,   \* the SessionContextState the last turn read
    query_context,   \* the QueryContext the last turn parsed
    constrained,     \* the candidates of the last turn after _apply_query_constraints
    citations,       \* ChatResponse.citations of the last turn, as <<unit, score>> pairs
    not_found,       \* ChatResponse.not_found of the last turn
    call,            \* the arguments of the function under study (function specifications)
    returned         \* None, or Some(what the function under study returned)

vars ==
    <<session, llm_enabled, message, granth_filter, prakran_filter, top_k, prior_context,
      query_context, constrained, citations, not_found, call, returned>>

----------------------------------------------------------------------------
(* Optional values *)

None == << >>
Some(x) == <<x>>
IsSome(o) == o # << >>
Val(o) == o[1]

----------------------------------------------------------------------------
(* Characters and Python's str primitives *)

AsciiDigits == <<"0", "1", "2", "3", "4", "5", "6", "7", "8", "9">>
DevDigits == <<"dev0", "dev1", "dev2", "dev3", "dev4", "dev5", "dev6", "dev7", "dev8", "dev9">>
GujDigits == <<"guj0", "guj1", "guj2", "guj3", "guj4", "guj5", "guj6", "guj7", "guj8", "guj9">>
UpperLetters == <<"A", "B", "C", "D", "E", "F", "G", "H", "I", "J", "K", "L", "M",
                  "N", "O", "P", "Q", "R", "S", "T", "U", "V", "W", "X", "Y", "Z">>
LowerLetters == <<"a", "b", "c", "d", "e", "f", "g", "h", "i", "j", "k", "l", "m",
                  "n", "o", "p", "q", "r", "s", "t", "u", "v", "w", "x", "y", "z">>

Range(f) == {f[i] : i \in DOMAIN f}
AsciiDigitSet == Range(AsciiDigits)
DigitSet == Range(AsciiDigits) \cup Range(DevDigits) \cup Range(GujDigits)
LowerLetterSet == Range(LowerLetters)
UpperLetterSet == Range(UpperLetters)
IndexIn(c, table) == CHOOSE i \in DOMAIN table : table[i] = c

\* str.isspace on the alphabet (NO-BREAK SPACE is whitespace for str.strip and \s)
IsSpace(c) == c \in {" ", "nbsp"}
\* [0-9]
IsAsciiDigit(c) == c \in AsciiDigitSet
\* \d of a str pattern: any Unicode decimal digit
IsDigit(c) == c \in DigitSet
IsLowerLetter(c) == c \in LowerLetterSet
IsUpperLetter(c) == c \in UpperLetterSet

\* the value int() gives a decimal digit
DigitValue(c) ==
    IF c \in AsciiDigitSet THEN IndexIn(c, AsciiDigits) - 1
    ELSE IF c \in Range(DevDigits) THEN IndexIn(c, DevDigits) - 1
    ELSE IndexIn(c, GujDigits) - 1

\* str.lower, one character
LowerChar(c) == IF IsUpperLetter(c) THEN LowerLetters[IndexIn(c, UpperLetters)] ELSE c
Lower(s) == [i \in DOMAIN s |-> LowerChar(s[i])]

\* s[:n]
Prefix(s, n) == SubSeq(s, 1, IF n < Len(s) THEN n ELSE Len(s))

\* str.strip
Strip(s) ==
    LET keep == {i \in DOMAIN s : ~IsSpace(s[i])}
    IN  IF keep = {} THEN << >>
        ELSE LET lo == CHOOSE i \in keep : \A j \in keep : i <= j
                 hi == CHOOSE i \in keep : \A j \in keep : j <= i
             IN  SubSeq(s, lo, hi)

\* s.startswith(w, i - 1), positions counted from 1
MatchAt(s, i, w) ==
    i >= 1 /\ i + Len(w) - 1 <= Len(s) /\ \A j \in DOMAIN w : s[i + j - 1] = w[j]
\* w in s
Contains(s, w) == \E i \in 1..(Len(s) - Len(w) + 1) : MatchAt(s, i, w)

Min(S) == CHOOSE x \in S : \A y \in S : x <= y

\* str.replace(old, new): every non-overlapping occurrence, left to right
RECURSIVE ReplaceFrom(_, _, _, _)
ReplaceFrom(s, i, old, new) ==
    IF i > Len(s) THEN << >>
    ELSE IF MatchAt(s, i, old) THEN new \o ReplaceFrom(s, i + Len(old), old, new)
    ELSE <<s[i]>> \o ReplaceFrom(s, i + 1, old, new)
Replace(s, old, new) == ReplaceFrom(s, 1, old, new)

\* " ".join(parts)
RECURSIVE JoinBlank(_)
JoinBlank(parts) ==
    IF Len(parts) = 0 THEN << >>
    ELSE IF Len(parts) = 1 THEN parts[1]
    ELSE parts[1] \o <<" ">> \o JoinBlank(Tail(parts))

\* str(n) for n >= 0
RECURSIVE Str(_)
Str(n) == IF n < 10 THEN <<AsciiDigits[n + 1]>> ELSE Str(n \div 10) \o <<AsciiDigits[(n % 10) + 1]>>

\* int(s) of a run of decimal digits
RECURSIVE ToInt(_)
ToInt(s) == IF Len(s) = 0 THEN 0 ELSE 10 * ToInt(SubSeq(s, 1, Len(s) - 1)) + DigitValue(s[Len(s)])

\* the end (exclusive) of the greedy \s* that starts at i
SkipSpace(s, i) ==
    CHOOSE j \in i..(Len(s) + 1) :
        /\ \A k \in i..(j - 1) : IsSpace(s[k])
        /\ (j = Len(s) + 1 \/ ~IsSpace(s[j]))

\* the end (exclusive) of the greedy \d{0,most} that starts at i
DigitsEnd(s, i, most) ==
    CHOOSE j \in i..(Len(s) + 1) :
        /\ j - i <= most
        /\ \A k \in i..(j - 1) : IsDigit(s[k])
        /\ (j - i = most \/ j = Len(s) + 1 \/ ~IsDigit(s[j]))

\* the ends (exclusive) of the alternatives of (?:w1|w2|...) that match at i
AltEnds(s, i, words) == {i + Len(w) : w \in {v \in words : MatchAt(s, i, v)}}

----------------------------------------------------------------------------
(* query_context.py: normalisation *)

\* unicodedata.normalize("NFKC", .) on the alphabet: NO-BREAK SPACE becomes a blank
NFKC(text) == [i \in DOMAIN text |-> IF text[i] = "nbsp" THEN " " ELSE text[i]]

_normalize_digits(text) ==
    [i \in DOMAIN text |->
        IF text[i] \in Range(DevDigits) THEN AsciiDigits[IndexIn(text[i], DevDigits)]
        ELSE IF text[i] \in Range(GujDigits) THEN AsciiDigits[IndexIn(text[i], GujDigits)]
        ELSE text[i]]

_normalize(text) == Strip(NFKC(text))

\* [a-z0-9] and the Devanagari and Gujarati blocks: once the digits are ASCII,
\* the lower-case letters and the digits of the alphabet
IsKeyChar(c) == IsLowerLetter(c) \/ IsAsciiDigit(c)
_norm_key(text) == SelectSeq(Lower(_normalize_digits(_normalize(text))), IsKeyChar)

----------------------------------------------------------------------------
(* query_context.py: the keyword tables.  The alternatives written in Devanagari
   or Gujarati letters and the en and em dashes lie outside the alphabet of the
   model, where no text can contain them; the Latin alternatives are all here. *)

_PRAKRAN_WORDS ==
    {<<"p", "r", "a", "k", "r", "a", "n">>,
    <<"p", "r", "a", "k", "a", "r", "a", "n">>}

_CHOPAI_WORDS ==
    {<<"c", "h", "o", "p", "a", "i">>,
    <<"c", "h", "a", "u", "p", "a", "i">>}

\* (?:to|se|thi|...|[-...]) of the two range patterns
_RANGE_CONNECTORS ==
    {<<"t", "o">>,
    <<"s", "e">>,
    <<"t", "h", "i">>,
    <<"-">>}

\* (?:th|st|nd|rd) of the reversed verse pattern
_ORDINAL_SUFFIXES ==
    {<<"t", "h">>,
    <<"s", "t">>,
    <<"n", "d">>,
    <<"r", "d">>}

_SUMMARY_HINTS ==
    {<<"s", "u", "m", "m", "a", "r", "y">>,
    <<"s", "u", "m", "m", "a", "r", "i", "z", "e">>,
    <<"e", "x", "p", "l", "a", "i", "n">>,
    <<"e", "x", "p", "l", "a", "n", "a", "t", "i", "o", "n">>,
    <<"s", "a", "m", "j", "h", "a", "o">>,
    <<"s", "a", "m", "j", "h", "a", "a", "o">>,
    <<"s", "a", "r", "a", "n", "s", "h">>,
    <<"s", "a", "a", "r">>,
    <<"k", "y", "a">>,
    <<"b", "a", "t", "a", "y", "a">>,
    <<"s", "h", "u">>,
    <<"k", "a", "h", "y", "u">>,
    <<"k", "a", "h", "e">>}

_COUNT_HINTS ==
    {<<"c", "o", "u", "n", "t">>,
    <<"h", "o", "w", "m", "a", "n", "y">>,
    <<"k", "i", "t", "n", "i">>,
    <<"k", "e", "t", "l", "i">>,
    <<"k", "e", "t", "l", "a">>,
    <<"n", "u", "m", "b", "e", "r">>}

_FOLLOWUP_HINTS ==
    {<<"u", "s", "m", "e">>,
    <<"i", "s", "m", "e">>,
    <<"t", "e", "m", "a">>,
    <<"a", "e">>,
    <<"t", "e">>,
    <<"t", "h", "a", "t">>,
    <<"t", "h", "i", "s">>,
    <<"s", "a", "m", "e">>,
    <<"u", "p", "a", "r">>,
    <<"u", "p", "a", "r", "n", "u">>}

----------------------------------------------------------------------------
(* query_context.py: the extractors.  re.search returns the leftmost match; a
   greedy \s* or \d{1,n} never has to give a character back in these patterns,
   because what follows it starts with neither a blank nor a digit. *)

\* \s*(\d{1,most}) from position i: the number and the end of the match
NumberAfter(s, i, most) ==
    LET a == SkipSpace(s, i)
        b == DigitsEnd(s, a, most)
    IN  IF b > a THEN Some(<<ToInt(SubSeq(s, a, b - 1)), b>>) ELSE None

\* (?:w1|w2|...) after \s* from position i: the ends of the alternatives that match
WordAfter(s, i, words) == AltEnds(s, SkipSpace(s, i), words)

\* <connector>\s*(\d{1,3}) after \s* from position i: the numbers matched, with their ends
ConnectedNumber(s, i) ==
    UNION {LET n2 == NumberAfter(s, c, 3)
           IN  IF IsSome(n2) THEN {Val(n2)} ELSE {} : c \in WordAfter(s, i, _RANGE_CONNECTORS)}

\* _PRAKRAN_WORDS\s*(\d{1,3})\s*(?:to|...)\s*(\d{1,3}) matched at position i
RangeForwardAt(s, i) ==
    UNION {LET n1 == NumberAfter(s, p, 3)
           IN  IF IsSome(n1)
               THEN {<<Val(n1)[1], n2[1]>> : n2 \in ConnectedNumber(s, Val(n1)[2])}
               ELSE {} : p \in AltEnds(s, i, _PRAKRAN_WORDS)}

\* (\d{1,3})\s*(?:to|...)\s*(\d{1,3})\s*_PRAKRAN_WORDS matched at position i
RangeReverseAt(s, i) ==
    LET b == DigitsEnd(s, i, 3)
    IN  IF b > i
        THEN {<<ToInt(SubSeq(s, i, b - 1)), n2[1]>> :
                 n2 \in {n \in ConnectedNumber(s, b) : WordAfter(s, n[2], _PRAKRAN_WORDS) # {}}}
        ELSE {}

\* A faulty extractor, for comparison: the forward pattern alone, its two numbers
\* put in increasing order.
SortedForwardRange(text) ==
    LET s == _normalize_digits(text)
        fwd == {i \in DOMAIN s : RangeForwardAt(s, i) # {}}
        r == CHOOSE x \in RangeForwardAt(s, Min(fwd)) : TRUE
    IN  IF fwd = {} THEN None
        ELSE IF r[1] <= r[2] THEN Some(r) ELSE Some(<<r[2], r[1]>>)

_extract_prakran_range(text) ==
    LET s == _normalize_digits(text)
        fwd == {i \in DOMAIN s : RangeForwardAt(s, i) # {}}
        rev == {i \in DOMAIN s : RangeReverseAt(s, i) # {}}
    IN  IF fwd # {} THEN Some(CHOOSE r \in RangeForwardAt(s, Min(fwd)) : TRUE)
        ELSE IF rev # {} THEN Some(CHOOSE r \in RangeReverseAt(s, Min(rev)) : TRUE)
        ELSE None

\* _PRAKRAN_WORDS\s*(\d{1,3}) matched at position i
SingleAt(s, i, words, most) ==
    UNION {LET n == NumberAfter(s, p, most)
           IN  IF IsSome(n) THEN {Val(n)[1]} ELSE {} : p \in AltEnds(s, i, words)}

_extract_single_prakran_number(text) ==
    LET s == _normalize_digits(text)
        at == {i \in DOMAIN s : SingleAt(s, i, _PRAKRAN_WORDS, 3) # {}}
    IN  IF at # {} THEN Some(CHOOSE n \in SingleAt(s, Min(at), _PRAKRAN_WORDS, 3) : TRUE) ELSE None

\* (\d{1,4})\s*(?:th|st|nd|rd)?\s*_CHOPAI_WORDS matched at position i
ChopaiReverseAt(s, i) ==
    LET b == DigitsEnd(s, i, 4)
        plain == WordAfter(s, b, _CHOPAI_WORDS)
        suffixed == UNION {WordAfter(s, e, _CHOPAI_WORDS) : e \in WordAfter(s, b, _ORDINAL_SUFFIXES)}
    IN  IF b > i /\ (plain # {} \/ suffixed # {}) THEN {ToInt(SubSeq(s, i, b - 1))} ELSE {}

_extract_chopai_number(text) ==
    LET source == _normalize_digits(text)
        direct == {i \in DOMAIN source : SingleAt(source, i, _CHOPAI_WORDS, 4) # {}}
        reverse == {i \in DOMAIN source : ChopaiReverseAt(source, i) # {}}
    IN  IF direct # {} THEN Some(CHOOSE n \in SingleAt(source, Min(direct), _CHOPAI_WORDS, 4) : TRUE)
        ELSE IF reverse # {} THEN Some(CHOOSE n \in ChopaiReverseAt(source, Min(reverse)) : TRUE)
        ELSE None

\* re.search(r"(\d{1,4})", text)
_extract_first_number(text) ==
    LET at == {i \in DOMAIN text : IsDigit(text[i])}
    IN  IF at # {} THEN Some(ToInt(SubSeq(text, Min(at), DigitsEnd(text, Min(at), 4) - 1))) ELSE None

\* bool(re.search(words, text))
SearchWords(text, words) == \E w \in words : Contains(text, w)

_mentions_followup(text) ==
    LET flat == _norm_key(text)
    IN  \E token \in _FOLLOWUP_HINTS : Contains(flat, token)

_has_any_token(text, terms) ==
    LET flat == _norm_key(text)
    IN  \E item \in terms : Contains(flat, item)

\* A faulty trigger, for comparison: only a follow-up cue carries context.
CarryOnFollowupOnly(text, asks_prakran, asks_chopai) == _mentions_followup(text)

_should_carry_context(text, asks_prakran, asks_chopai) ==
    IF asks_prakran \/ asks_chopai THEN TRUE
    ELSE IF _mentions_followup(text) THEN TRUE
    ELSE FALSE

----------------------------------------------------------------------------
(* query_context.py: work detection *)

\* re.sub(r"([a-z])([A-Z])", r"\1 \2", raw): a blank between a lower-case letter
\* and the upper-case letter that follows it
RECURSIVE DeCamelFrom(_, _)
DeCamelFrom(s, i) ==
    IF i > Len(s) THEN << >>
    ELSE IF i < Len(s) /\ IsLowerLetter(s[i]) /\ IsUpperLetter(s[i + 1])
         THEN <<s[i], " ">> \o DeCamelFrom(s, i + 1)
    ELSE <<s[i]>> \o DeCamelFrom(s, i + 1)

\* the table `extra` of _granth_aliases: token -> spellings
ExtraAliases ==
    {<<<<"s", "i", "n", "g", "a", "a", "r">>,
       {<<"s", "i", "n", "g", "a", "r">>,
        <<"s", "r", "i", "n", "g", "a", "r">>,
        <<"s", "h", "r", "i", "n", "g", "a", "r">>}>>,
     <<<<"k", "i", "r", "a", "n", "t", "a", "n">>,
       {<<"k", "i", "r", "t", "a", "n">>,
        <<"k", "i", "r", "a", "t", "a", "n">>}>>,
     <<<<"p", "r", "a", "k", "a", "s", "h">>,
       {<<"p", "r", "k", "a", "s", "h">>,
        <<"p", "r", "a", "k", "a", "s">>}>>,
     <<<<"r", "a", "s">>,
       {<<"r", "a", "a", "s">>,
        <<"r", "a", "s">>}>>}

_granth_aliases(granth) ==
    LET raw == Strip(granth)
        key == _norm_key(raw)
        de_camel == DeCamelFrom(raw, 1)
        base == Replace(Replace(key, <<"s", "h", "r", "i">>, << >>), <<"s", "r", "i">>, << >>)
        extra == UNION {{_norm_key(item) : item \in e[2]} : e \in {x \in ExtraAliases : Contains(key, x[1])}}
        aliases == {key, _norm_key(de_camel), base, Replace(base, <<"a", "a">>, <<"a">>)} \cup extra
    IN  {item \in aliases : item # << >>}

\* _detect_granth.  For each work the loop takes the first alias, in the iteration
\* order of a Python set of str, that occurs in the message, and stops (break).
\* That order changes with the interpreter's hash seed, so the recorded length is
\* that of any alias of the work that occurs: the result is the set of the works
\* the call can return (or None).  The sort by length is stable, so equal lengths
\* keep the order of `granths`.
_detect_granth(text, granths) ==
    LET flat == _norm_key(text)
        found(i) == {Len(alias) : alias \in {a \in _granth_aliases(granths[i]) : Contains(flat, a)}}
        hit == {i \in DOMAIN granths : found(i) # {}}
        lengths == UNION {found(i) : i \in hit}
        orders == {f \in [hit -> lengths] : \A i \in hit : f[i] \in found(i)}
        first(f) == CHOOSE i \in hit : \A j \in hit : f[i] > f[j] \/ (f[i] = f[j] /\ i <= j)
    IN  IF Len(granths) = 0 \/ flat = << >> \/ hit = {} THEN {None}
        ELSE {Some(granths[first(f)]) : f \in orders}

----------------------------------------------------------------------------
(* query_context.py: SessionContextState, QueryContext, parse_query_context *)

\* SessionContextState()
EmptySessionContext ==
    [granth_name |-> None, prakran_number |-> None, prakran_range_start |-> None,
     prakran_range_end |-> None, chopai_number |-> None]

\* Python's truth value of an optional str
TruthyStr(o) == IsSome(o) /\ Val(o) # << >>

\* parse_query_context once _detect_granth has returned detected_granth
ParseWith(msg, detected_granth, prior, filter_granth_in, filter_prakran) ==
    LET text == _normalize(msg)
        lowered == Lower(text)
        stripped == IF TruthyStr(filter_granth_in) THEN Strip(Val(filter_granth_in)) ELSE << >>
        filter_granth == IF stripped # << >> THEN Some(stripped) ELSE None
        granth_name0 == IF IsSome(filter_granth) THEN filter_granth ELSE detected_granth
        prakran_range0 == _extract_prakran_range(lowered)
        prakran_number0 ==
            IF ~IsSome(prakran_range0) THEN _extract_single_prakran_number(lowered) ELSE None
        chopai_number == _extract_chopai_number(lowered)
        filter_prakran_number ==
            _extract_first_number(
                _normalize_digits(IF TruthyStr(filter_prakran) THEN Val(filter_prakran) ELSE << >>))
        prakran_number1 ==
            IF IsSome(filter_prakran_number) /\ ~IsSome(prakran_number0) /\ ~IsSome(prakran_range0)
            THEN filter_prakran_number ELSE prakran_number0
        summary_hint == _has_any_token(lowered, _SUMMARY_HINTS) \/ IsSome(prakran_range0)
        count_hint == _has_any_token(lowered, _COUNT_HINTS) /\ SearchWords(lowered, _CHOPAI_WORDS)
        asks_chopai == SearchWords(lowered, _CHOPAI_WORDS)
        asks_prakran == SearchWords(lowered, _PRAKRAN_WORDS)
        intent ==
            IF count_hint THEN "count_chopai"
            ELSE IF IsSome(chopai_number) /\ (asks_chopai \/ asks_prakran) THEN "specific_chopai"
            ELSE IF IsSome(prakran_range0) THEN "prakran_range_summary"
            ELSE IF IsSome(prakran_number1) /\ summary_hint THEN "prakran_summary"
            ELSE "general_qa"
        should_carry == _should_carry_context(lowered, asks_prakran, asks_chopai)
        carry_granth == should_carry /\ ~IsSome(granth_name0) /\ TruthyStr(prior.granth_name)
        carry_number ==
            should_carry /\ ~IsSome(prakran_number1) /\ ~IsSome(prakran_range0)
                /\ IsSome(prior.prakran_number)
        carry_range ==
            should_carry /\ ~IsSome(prakran_range0) /\ IsSome(prior.prakran_range_start)
                /\ IsSome(prior.prakran_range_end) /\ asks_prakran /\ _mentions_followup(lowered)
        granth_name == IF carry_granth THEN prior.granth_name ELSE granth_name0
        prakran_number == IF carry_number THEN prior.prakran_number ELSE prakran_number1
        prakran_range ==
            IF carry_range THEN Some(<<Val(prior.prakran_range_start), Val(prior.prakran_range_end)>>)
            ELSE prakran_range0
        carried == carry_granth \/ carry_number \/ carry_range
        notes ==
            (IF carried THEN <<"context_carried">> ELSE << >>)
            \o (IF IsSome(filter_granth) THEN <<"granth_filter">> ELSE << >>)
            \o (IF TruthyStr(filter_prakran) THEN <<"prakran_filter">> ELSE << >>)
    IN  [intent |-> intent,
         granth_name |-> granth_name,
         prakran_number |-> prakran_number,
         prakran_range_start |-> IF IsSome(prakran_range) THEN Some(Val(prakran_range)[1]) ELSE None,
         prakran_range_end |-> IF IsSome(prakran_range) THEN Some(Val(prakran_range)[2]) ELSE None,
         chopai_number |-> chopai_number,
         requires_summary |-> summary_hint \/ intent \in {"prakran_summary", "prakran_range_summary"},
         requires_count |-> count_hint,
         context_carried |-> carried,
         notes |-> notes]

\* parse_query_context: the QueryContexts the call can return, one for each work
\* _detect_granth can return
\* the section number of the client's filter
FilterSection(filter_prakran) ==
    _extract_first_number(
        _normalize_digits(IF TruthyStr(filter_prakran) THEN Val(filter_prakran) ELSE << >>))

\* parse_query_context with the filter's section number above the message's own
FilterSectionFirst(msg, granths, prior, filter_granth, filter_prakran) ==
    {LET q == ParseWith(msg, detected, prior, filter_granth, filter_prakran)
     IN  IF IsSome(FilterSection(filter_prakran))
         THEN [q EXCEPT !.prakran_number = FilterSection(filter_prakran)] ELSE q :
        detected \in _detect_granth(msg, granths)}

\* parse_query_context with the detected work first and the filter second
DetectionWins(msg, granths, prior, filter_granth, filter_prakran) ==
    {ParseWith(msg, detected, prior, IF IsSome(detected) THEN None ELSE filter_granth,
               filter_prakran) :
        detected \in _detect_granth(msg, granths)}

\* parse_query_context that falls back to the verse number of the prior state
InheritVerse(msg, granths, prior, filter_granth, filter_prakran) ==
    {[q EXCEPT !.chopai_number = IF IsSome(q.chopai_number) THEN @ ELSE prior.chopai_number] :
        q \in {ParseWith(msg, detected, prior, filter_granth, filter_prakran) :
                    detected \in _detect_granth(msg, granths)}}

parse_query_context(msg, granths, prior, filter_granth, filter_prakran) ==
    {ParseWith(msg, detected, prior, filter_granth, filter_prakran) :
        detected \in _detect_granth(msg, granths)}

\* A faulty merge, for comparison: the prior state wins wherever it holds a value.
PriorWinsMerge(prior, current) ==
    [granth_name |-> IF TruthyStr(prior.granth_name) THEN prior.granth_name ELSE current.granth_name,
     prakran_number |->
        IF IsSome(prior.prakran_number) THEN prior.prakran_number ELSE current.prakran_number,
     prakran_range_start |->
        IF IsSome(prior.prakran_range_start) THEN prior.prakran_range_start
        ELSE current.prakran_range_start,
     prakran_range_end |->
        IF IsSome(prior.prakran_range_end) THEN prior.prakran_range_end
        ELSE current.prakran_range_end,
     chopai_number |->
        IF IsSome(prior.chopai_number) THEN prior.chopai_number ELSE current.chopai_number]

next_session_context(prior, current) ==
    [granth_name |-> IF TruthyStr(current.granth_name) THEN current.granth_name ELSE prior.granth_name,
     prakran_number |->
        IF IsSome(current.prakran_number) THEN current.prakran_number ELSE prior.prakran_number,
     prakran_range_start |->
        IF IsSome(current.prakran_range_start) THEN current.prakran_range_start
        ELSE prior.prakran_range_start,
     prakran_range_end |->
        IF IsSome(current.prakran_range_end) THEN current.prakran_range_end
        ELSE prior.prakran_range_end,
     chopai_number |->
        IF IsSome(current.chopai_number) THEN current.chopai_number ELSE prior.chopai_number]

\* parse_session_context: the row is None or the stored record; an empty work
\* name reads as None (`or None`), the numbers go through int()
parse_session_context(row) ==
    IF ~IsSome(row) THEN EmptySessionContext
    ELSE [granth_name |-> IF TruthyStr(Val(row).granth_name) THEN Val(row).granth_name ELSE None,
          prakran_number |-> Val(row).prakran_number,
          prakran_range_start |-> Val(row).prakran_range_start,
          prakran_range_end |-> Val(row).prakran_range_end,
          chopai_number |-> Val(row).chopai_number]

----------------------------------------------------------------------------
(* query_context.py: QueryContext's properties *)

has_prakran_constraint(query) ==
    IsSome(query.prakran_number)
        \/ (IsSome(query.prakran_range_start) /\ IsSome(query.prakran_range_end))

has_reference_constraint(query) ==
    has_prakran_constraint(query) \/ IsSome(query.chopai_number) \/ IsSome(query.granth_name)

\* QueryContext.prakran_numbers(max_span)
prakran_numbers(query, max_span) ==
    IF IsSome(query.prakran_number) THEN <<Val(query.prakran_number)>>
    ELSE IF ~IsSome(query.prakran_range_start) \/ ~IsSome(query.prakran_range_end) THEN << >>
    ELSE LET a == Val(query.prakran_range_start)
             b == Val(query.prakran_range_end)
             start == IF a <= b THEN a ELSE b
             end0 == IF a <= b THEN b ELSE a
             end == IF end0 - start > max_span THEN start + max_span ELSE end0
         IN  [i \in 1..(end + 1 - start) |-> start + i - 1]

----------------------------------------------------------------------------
(* query_context.py: matching a unit against a section number and a query.
   A unit is a record of the fields of RetrievedUnit that the engine reads:
   id, granth_name, prakran_name, prakran_number, chopai_number,
   prakran_chopai_index, chunk_text, normalized_text. *)

\* unit.chunk_text[:900], unit.normalized_text[:900]
MatchPrefixLen == 900

\* re.search(r"^prakran\s+(\d{1,3})$", prakran_name): the digits matched
ExplicitNameMatch(prakran_name) ==
    LET word == <<"p", "r", "a", "k", "r", "a", "n">>
        a == Len(word) + 1
        b == SkipSpace(prakran_name, a)
        c == DigitsEnd(prakran_name, b, 3)
    IN  IF MatchAt(prakran_name, 1, word) /\ b > a /\ c > b /\ c = Len(prakran_name) + 1
        THEN Some(SubSeq(prakran_name, b, c - 1)) ELSE None

\* (?<!\d)target(?!\d)
SearchUnadjacent(text, target) ==
    \E i \in DOMAIN text :
        /\ MatchAt(text, i, target)
        /\ (i = 1 \/ ~IsDigit(text[i - 1]))
        /\ (i + Len(target) > Len(text) \/ ~IsDigit(text[i + Len(target)]))

unit_matches_prakran(unit, prakran_number) ==
    LET target == Str(prakran_number)
        prakran_name == Lower(Strip(unit.prakran_name))
        explicit_name_match == ExplicitNameMatch(prakran_name)
        candidate_text ==
            Lower(JoinBlank(<<_normalize_digits(unit.prakran_name),
                              _normalize_digits(Prefix(unit.chunk_text, MatchPrefixLen)),
                              _normalize_digits(Prefix(unit.normalized_text, MatchPrefixLen))>>))
    IN  IF IsSome(explicit_name_match) THEN ToInt(Val(explicit_name_match)) = prakran_number
        ELSE IF candidate_text = << >> THEN FALSE
        ELSE \/ SearchUnadjacent(candidate_text, target)
             \/ Contains(candidate_text, <<"-">> \o target \o <<"-">>)
             \/ Contains(candidate_text, target \o <<")">>)
             \/ Contains(candidate_text, <<"(">> \o target)

\* A faulty test, for comparison: the verse is matched by the recorded number only.
VerseByRecordedNumber(unit, query) ==
    LET parsed ==
            _extract_first_number(
                _normalize_digits(IF TruthyStr(unit.chopai_number) THEN Val(unit.chopai_number) ELSE << >>))
        numbers == prakran_numbers(query, 20)
    IN  IF TruthyStr(query.granth_name) /\ unit.granth_name # Val(query.granth_name) THEN FALSE
        ELSE IF IsSome(query.chopai_number) /\ parsed # query.chopai_number THEN FALSE
        ELSE IF Len(numbers) > 0
                /\ ~(\E i \in DOMAIN numbers : unit_matches_prakran(unit, numbers[i])) THEN FALSE
        ELSE TRUE

unit_matches_query(unit, query) ==
    LET parsed ==
            _extract_first_number(
                _normalize_digits(IF TruthyStr(unit.chopai_number) THEN Val(unit.chopai_number) ELSE << >>))
        prakran_idx == unit.prakran_chopai_index
        numbers == prakran_numbers(query, 20)
    IN  IF TruthyStr(query.granth_name) /\ unit.granth_name # Val(query.granth_name) THEN FALSE
        ELSE IF IsSome(query.chopai_number) /\ parsed # query.chopai_number
                /\ prakran_idx # query.chopai_number THEN FALSE
        ELSE IF Len(numbers) > 0
                /\ ~(\E i \in DOMAIN numbers : unit_matches_prakran(unit, numbers[i])) THEN FALSE
        ELSE TRUE

----------------------------------------------------------------------------
(* Scores.  A Python float is modelled by the exact fraction <<numerator,
   denominator>> (denominator > 0) of the value it rounds. *)

RLess(a, b) == a[1] * b[2] < b[1] * a[2]
REq(a, b) == a[1] * b[2] = b[1] * a[2]
RAdd(a, b) == <<a[1] * b[2] + b[1] * a[2], a[2] * b[2]>>
RZero == <<0, 1>>

\* sorted(s, key=Key, reverse=True): descending, equal keys in their first order
SortDescBy(s, Key(_)) ==
    LET before(j, i) == RLess(Key(s[i]), Key(s[j])) \/ (REq(Key(s[i]), Key(s[j])) /\ j < i)
        place(i) == 1 + Cardinality({j \in DOMAIN s : before(j, i)})
    IN  [r \in DOMAIN s |-> s[CHOOSE i \in DOMAIN s : place(i) = r]]

\* the elements of s at the positions in I, in order
AtPositions(s, I) ==
    LET nth(r) == CHOOSE i \in I : Cardinality({j \in I : j < i}) = r - 1
    IN  [r \in 1..Cardinality(I) |-> s[nth(r)]]

PairScore(pair) == pair[2]

----------------------------------------------------------------------------
(* retrieval.py: reciprocal_rank_fusion.  lexical and vector are sequences of
   <<unit, score>>; the result is a sequence of RetrievalResult. *)

\* a stream deduplicated in the order given, not sorted by score
FirstSeenStream(ranked) ==
    LET firsts == {i \in DOMAIN ranked : \A j \in 1..(i - 1) : ranked[j][1].id # ranked[i][1].id}
    IN  [r \in DOMAIN AtPositions(ranked, firsts) |-> AtPositions(ranked, firsts)[r][1]]

\* one stream: sorted by its own score, then the first occurrence of each unit id
RankedStream(ranked) ==
    LET sorted == SortDescBy(ranked, PairScore)
        firsts == {i \in DOMAIN sorted : \A j \in 1..(i - 1) : sorted[j][1].id # sorted[i][1].id}
    IN  [r \in DOMAIN AtPositions(sorted, firsts) |-> AtPositions(sorted, firsts)[r][1]]

\* the 1-based rank of unit id in a stream, 0 when the stream lacks it
RankIn(stream, id) ==
    IF \E r \in DOMAIN stream : stream[r].id = id
    THEN CHOOSE r \in DOMAIN stream : stream[r].id = id ELSE 0

\* A faulty fusion, for comparison: a unit keeps the share of the last stream
\* that holds it (acc[id] = share instead of acc[id] += share).
FusionOverwrites(lexical, vector, k) ==
    LET lex_stream == RankedStream(lexical)
        vec_stream == RankedStream(vector)
        fresh == {r \in DOMAIN vec_stream : RankIn(lex_stream, vec_stream[r].id) = 0}
        keys == [r \in DOMAIN lex_stream |-> lex_stream[r].id]
                    \o [r \in DOMAIN AtPositions(vec_stream, fresh) |-> AtPositions(vec_stream, fresh)[r].id]
        acc(id) ==
            IF RankIn(vec_stream, id) # 0 THEN <<1, k + RankIn(vec_stream, id)>>
            ELSE <<1, k + RankIn(lex_stream, id)>>
        units(id) ==
            IF RankIn(vec_stream, id) # 0 THEN vec_stream[RankIn(vec_stream, id)]
            ELSE lex_stream[RankIn(lex_stream, id)]
        ranked_ids == SortDescBy(keys, acc)
    IN  [r \in DOMAIN ranked_ids |-> [unit |-> units(ranked_ids[r]), score |-> acc(ranked_ids[r])]]

reciprocal_rank_fusion(lexical, vector, k) ==
    LET lex_stream == RankedStream(lexical)
        vec_stream == RankedStream(vector)
        \* the keys of acc in insertion order: the lexical stream, then what is new in the vector stream
        fresh == {r \in DOMAIN vec_stream : RankIn(lex_stream, vec_stream[r].id) = 0}
        keys == [r \in DOMAIN lex_stream |-> lex_stream[r].id]
                    \o [r \in DOMAIN AtPositions(vec_stream, fresh) |-> AtPositions(vec_stream, fresh)[r].id]
        share(stream, id) == IF RankIn(stream, id) = 0 THEN RZero ELSE <<1, k + RankIn(stream, id)>>
        acc(id) ==
            IF RankIn(lex_stream, id) = 0 THEN RAdd(RZero, share(vec_stream, id))
            ELSE IF RankIn(vec_stream, id) = 0 THEN RAdd(RZero, share(lex_stream, id))
            ELSE RAdd(RAdd(RZero, share(lex_stream, id)), share(vec_stream, id))
        units(id) ==
            IF RankIn(vec_stream, id) # 0 THEN vec_stream[RankIn(vec_stream, id)]
            ELSE lex_stream[RankIn(lex_stream, id)]
        ranked_ids == SortDescBy(keys, acc)
    IN  [r \in DOMAIN ranked_ids |-> [unit |-> units(ranked_ids[r]), score |-> acc(ranked_ids[r])]]

----------------------------------------------------------------------------
(* chat.py: the constraint filter, the diversifier and the ambiguity guard.
   ranked lists are sequences of <<unit, score>>. *)

\* A faulty filter, for comparison: the unfiltered list when no candidate matches.
FallbackToUnfiltered(ranked, q) ==
    LET keep == {i \in DOMAIN ranked : unit_matches_query(ranked[i][1], q)}
    IN  IF ~has_reference_constraint(q) \/ keep = {} THEN ranked
        ELSE AtPositions(ranked, keep)

_apply_query_constraints(ranked, q) ==
    LET keep == {i \in DOMAIN ranked : unit_matches_query(ranked[i][1], q)}
        kept == AtPositions(ranked, keep)
    IN  IF ~has_reference_constraint(q) THEN ranked
        ELSE IF Len(kept) > 0 THEN kept
        ELSE << >>

\* next((number for number in requested_prakrans if unit_matches_prakran(unit, number)), None)
FirstMatched(unit, requested_prakrans) ==
    LET hits == {i \in DOMAIN requested_prakrans : unit_matches_prakran(unit, requested_prakrans[i])}
    IN  IF hits = {} THEN None ELSE Some(requested_prakrans[Min(hits)])

\* the loop over sorted_pairs of _diversify_reference_results from position i on:
\* the lists diversified and overflow when the loop ends, and whether it ended by
\* returning (diversified reached max_items)
RECURSIVE DiversifyLoop(_, _, _, _, _, _, _)
DiversifyLoop(sorted_pairs, requested_prakrans, max_items, i, diversified, overflow, per_prakran) ==
    IF i > Len(sorted_pairs)
    THEN [diversified |-> diversified, overflow |-> overflow, returned |-> FALSE]
    ELSE LET pair == sorted_pairs[i]
             matched == FirstMatched(pair[1], requested_prakrans)
         IN  IF ~IsSome(matched)
             THEN DiversifyLoop(sorted_pairs, requested_prakrans, max_items, i + 1,
                                diversified, Append(overflow, pair), per_prakran)
             ELSE IF per_prakran[Val(matched)] < 2
             THEN IF Len(diversified) + 1 >= max_items
                  THEN [diversified |-> Append(diversified, pair), overflow |-> overflow,
                        returned |-> TRUE]
                  ELSE DiversifyLoop(sorted_pairs, requested_prakrans, max_items, i + 1,
                                     Append(diversified, pair), overflow,
                                     [per_prakran EXCEPT ![Val(matched)] = @ + 1])
             ELSE IF Len(diversified) >= max_items
                  THEN [diversified |-> diversified, overflow |-> Append(overflow, pair),
                        returned |-> TRUE]
                  ELSE DiversifyLoop(sorted_pairs, requested_prakrans, max_items, i + 1,
                                     diversified, Append(overflow, pair), per_prakran)

\* the primary list alone, nothing taken from overflow
PrimaryOnly(diversified, overflow, i, max_items) == diversified

\* the loop over overflow: append until diversified holds max_items
RECURSIVE FillFromOverflow(_, _, _, _)
FillFromOverflow(diversified, overflow, i, max_items) ==
    IF i > Len(overflow) THEN diversified
    ELSE IF Len(diversified) + 1 >= max_items THEN Append(diversified, overflow[i])
    ELSE FillFromOverflow(Append(diversified, overflow[i]), overflow, i + 1, max_items)

\* A faulty primary list, for comparison: no cap per section number.
UncappedPrimary(ranked_pairs, q, max_items) ==
    LET requested_prakrans == prakran_numbers(q, 24)
        sorted_pairs == SortDescBy(ranked_pairs, PairScore)
        hits == {i \in DOMAIN sorted_pairs : IsSome(FirstMatched(sorted_pairs[i][1], requested_prakrans))}
        rest == DOMAIN sorted_pairs \ hits
    IN  [diversified |-> Prefix(AtPositions(sorted_pairs, hits), max_items),
         overflow |-> AtPositions(sorted_pairs, rest),
         returned |-> Cardinality(hits) >= max_items]

\* the primary (pre-overflow) list of _diversify_reference_results for a range query
DiversifyPrimary(ranked_pairs, q, max_items) ==
    LET requested_prakrans == prakran_numbers(q, 24)
    IN  DiversifyLoop(SortDescBy(ranked_pairs, PairScore), requested_prakrans, max_items, 1,
                      << >>, << >>, [n \in Range(requested_prakrans) |-> 0])

_diversify_reference_results(ranked_pairs, q, max_items) ==
    LET sorted_pairs == SortDescBy(ranked_pairs, PairScore)
        requested_prakrans == prakran_numbers(q, 24)
        primary == DiversifyPrimary(ranked_pairs, q, max_items)
    IN  IF Len(ranked_pairs) = 0 THEN << >>
        ELSE IF ~IsSome(q.prakran_range_start) \/ ~IsSome(q.prakran_range_end)
        THEN Prefix(sorted_pairs, max_items)
        ELSE IF Len(requested_prakrans) = 0 THEN Prefix(sorted_pairs, max_items)
        ELSE IF primary.returned THEN Prefix(primary.diversified, max_items)
        ELSE Prefix(FillFromOverflow(primary.diversified, primary.overflow, 1, max_items), max_items)

_is_ambiguous_reference(q, strong_results) ==
    IF IsSome(q.granth_name) THEN FALSE
    ELSE IF ~(IsSome(q.chopai_number) \/ IsSome(q.prakran_number)) THEN FALSE
    ELSE IF Len(strong_results) = 0 THEN FALSE
    ELSE Cardinality({strong_results[i][1].granth_name : i \in DOMAIN strong_results}) > 1

----------------------------------------------------------------------------
(* db.py: the chopai_units table and lookup_reference_units *)

\* SELECT DISTINCT granth_name FROM chopai_units ORDER BY granth_name (list_filters)
Granths == <<<<"S", "h", "r", "i", "K", "i", "r", "a", "n", "t", "a", "n">>, <<"S", "h", "r", "i", "S", "i", "n", "g", "a", "a", "r">>>>

\* a row of chopai_units, as a RetrievedUnit
Unit(id, granth_name, prakran_name, prakran_number, chopai_number, prakran_chopai_index, chunk_text) ==
    [id |-> id, granth_name |-> granth_name, prakran_name |-> prakran_name,
     prakran_number |-> prakran_number, chopai_number |-> chopai_number,
     prakran_chopai_index |-> prakran_chopai_index, chunk_text |-> chunk_text,
     normalized_text |-> Lower(chunk_text)]

\* The rows of chopai_units in the order of ORDER BY page_number ASC, id ASC: the
\* fourth verse of four sections of ShriSingaar, then one verse of ShriKirantan.
chopai_units ==
    <<Unit("s14", Granths[2], <<"P", "r", "a", "k", "r", "a", "n", " ", "1", "4">>, Some(14), Some(<<"4">>), Some(4), <<"p", "i", "y", "a", " ", "s", "i", "n", "g", "a", "r">>),
      Unit("s15", Granths[2], <<"P", "r", "a", "k", "r", "a", "n", " ", "1", "5">>, Some(15), Some(<<"4">>), Some(4), <<"s", "u", "n", "d", "a", "r", " ", "s", "a", "r", "u", "p">>),
      Unit("s16", Granths[2], <<"P", "r", "a", "k", "r", "a", "n", " ", "1", "6">>, Some(16), Some(<<"4">>), Some(4), <<"-", "1", "6", "-", " ", "m", "u", "k", "h">>),
      Unit("s17", Granths[2], <<"U", "n", "k", "n", "o", "w", "n", " ", "P", "r", "a", "k", "r", "a", "n">>, None, Some(<<"4">>), None, <<"n", "a", "i", "n", " ", "1", "7", " ", "s", "h", "o", "b", "h", "a">>),
      Unit("k07", Granths[1], <<"P", "r", "a", "k", "r", "a", "n", " ", "7">>, Some(7), Some(<<"4">>), Some(4), <<"k", "i", "r", "a", "n", "t", "a", "n", " ", "d", "h", "a", "m">>),
      Unit("k05", Granths[1], <<"P", "r", "a", "k", "r", "a", "n", " ", "5">>, Some(5), Some(<<"9">>), Some(9), <<"d", "h", "a", "m", " ", "d", "h", "a", "n", "i">>)>>

\* CAST(chopai_number AS INTEGER) of SQLite: the number the text starts with, 0
\* when it starts with none, NULL for NULL
CastInteger(text) ==
    IF ~IsSome(text) THEN None
    ELSE LET a == SkipSpace(Val(text), 1)
             b == CHOOSE j \in a..(Len(Val(text)) + 1) :
                    /\ \A x \in a..(j - 1) : IsAsciiDigit(Val(text)[x])
                    /\ (j = Len(Val(text)) + 1 \/ ~IsAsciiDigit(Val(text)[j]))
         IN  Some(ToInt(SubSeq(Val(text), a, b - 1)))

\* _build_prakran_number_clause, evaluated on one row
_build_prakran_number_clause(unit, prakran_number) ==
    LET value == Str(prakran_number)
    IN  \/ unit.prakran_number = Some(prakran_number)
        \/ Lower(Strip(unit.prakran_name)) = <<"p", "r", "a", "k", "r", "a", "n", " ">> \o value
        \/ Contains(unit.prakran_name, value)
        \/ Contains(unit.chunk_text, <<"-">> \o value \o <<"-">>)
        \/ Contains(unit.chunk_text, <<" ">> \o value \o <<" ">>)
        \/ Contains(unit.normalized_text, <<"-">> \o value \o <<"-">>)
        \/ Contains(unit.normalized_text, <<" ">> \o value \o <<" ">>)

\* prakran_range is None or Some(<<start, end>>)
lookup_reference_units(granth_name, chopai_number, prakran_number, prakran_range, limit) ==
    LET lo == IF Val(prakran_range)[1] <= Val(prakran_range)[2]
              THEN Val(prakran_range)[1] ELSE Val(prakran_range)[2]
        hi == IF Val(prakran_range)[1] <= Val(prakran_range)[2]
              THEN Val(prakran_range)[2] ELSE Val(prakran_range)[1]
        numbers == lo..(IF hi < lo + 20 THEN hi ELSE lo + 20)
        where(unit) ==
            /\ TruthyStr(granth_name) => unit.granth_name = Val(granth_name)
            /\ IsSome(chopai_number) =>
                    \/ CastInteger(unit.chopai_number) = chopai_number
                    \/ unit.prakran_chopai_index = chopai_number
            /\ IsSome(prakran_number) => _build_prakran_number_clause(unit, Val(prakran_number))
            /\ IsSome(prakran_range) =>
                    \E number \in numbers : _build_prakran_number_clause(unit, number)
    IN  Prefix(SelectSeq(chopai_units, where), IF limit < 1 THEN 1 ELSE limit)

----------------------------------------------------------------------------
(* chat.py and config.py: the retrieval steps of a turn *)

\* Settings.retrieval_top_k
retrieval_top_k == 6

\* Settings.minimum_grounding_score, 0.015
minimum_grounding_score == <<3, 200>>

Max(a, b) == IF a >= b THEN a ELSE b

\* the ids of a list of <<unit, score>> pairs, each once, in the order of first occurrence
KeysOf(ranked) ==
    LET firsts == {i \in DOMAIN ranked : \A j \in 1..(i - 1) : ranked[j][1].id # ranked[i][1].id}
    IN  [r \in DOMAIN AtPositions(ranked, firsts) |-> AtPositions(ranked, firsts)[r][1].id]

\* _agentic_retrieve.  What RetrievalService.search finds is the environment's:
\* found is the table score_by_id/unit_by_id after the loop over the queries, as
\* <<unit, score>> pairs in insertion order, before the WHERE clauses that search
\* passes to both indexes (granth_name = granth, prakran_name = prakran).
_agentic_retrieve(found, limit_k, granth, prakran) ==
    LET where(pair) ==
            /\ TruthyStr(granth) => pair[1].granth_name = Val(granth)
            /\ TruthyStr(prakran) => pair[1].prakran_name = Val(prakran)
    IN  Prefix(SortDescBy(SelectSeq(found, where), PairScore), Max(limit_k, 4))

\* the merge with the floor written over the score a unit had
FloorOverwrites(ranked, reference_hits, limit_k) ==
    LET hit_rank(id) ==
            IF \E r \in DOMAIN reference_hits : reference_hits[r].id = id
            THEN CHOOSE r \in DOMAIN reference_hits : reference_hits[r].id = id ELSE 0
        last(id) == CHOOSE i \in DOMAIN ranked :
                        ranked[i][1].id = id /\ \A j \in (i + 1)..Len(ranked) : ranked[j][1].id # id
        known(id) == \E i \in DOMAIN ranked : ranked[i][1].id = id
        score_by_id(id) ==
            IF hit_rank(id) # 0 THEN RAdd(<<1, 4>>, <<1, 30 + hit_rank(id)>>) ELSE ranked[last(id)][2]
        unit_by_id(id) ==
            IF hit_rank(id) # 0 THEN reference_hits[hit_rank(id)] ELSE ranked[last(id)][1]
        fresh == {r \in DOMAIN reference_hits : ~known(reference_hits[r].id)}
        keys == KeysOf(ranked)
                    \o [r \in DOMAIN AtPositions(reference_hits, fresh) |->
                            AtPositions(reference_hits, fresh)[r].id]
        ranked_ids == Prefix(SortDescBy(keys, score_by_id), Max(limit_k * 2, 10))
    IN  [r \in DOMAIN ranked_ids |-> <<unit_by_id(ranked_ids[r]), score_by_id(ranked_ids[r])>>]

\* _merge_reference_hits from the answer of lookup_reference_units on
MergeHits(ranked, reference_hits, limit_k) ==
    LET hit_rank(id) ==
            IF \E r \in DOMAIN reference_hits : reference_hits[r].id = id
            THEN CHOOSE r \in DOMAIN reference_hits : reference_hits[r].id = id ELSE 0
        last(id) == CHOOSE i \in DOMAIN ranked :
                        ranked[i][1].id = id /\ \A j \in (i + 1)..Len(ranked) : ranked[j][1].id # id
        known(id) == \E i \in DOMAIN ranked : ranked[i][1].id = id
        floor(rank) == RAdd(<<1, 4>>, <<1, 30 + rank>>)
        before(id) == IF known(id) THEN ranked[last(id)][2] ELSE RZero
        score_by_id(id) ==
            IF hit_rank(id) # 0 /\ RLess(before(id), floor(hit_rank(id)))
            THEN floor(hit_rank(id)) ELSE before(id)
        unit_by_id(id) ==
            IF hit_rank(id) # 0 THEN reference_hits[hit_rank(id)] ELSE ranked[last(id)][1]
        fresh == {r \in DOMAIN reference_hits : ~known(reference_hits[r].id)}
        keys == KeysOf(ranked)
                    \o [r \in DOMAIN AtPositions(reference_hits, fresh) |->
                            AtPositions(reference_hits, fresh)[r].id]
        ranked_ids == Prefix(SortDescBy(keys, score_by_id), Max(limit_k * 2, 10))
    IN  [r \in DOMAIN ranked_ids |-> <<unit_by_id(ranked_ids[r]), score_by_id(ranked_ids[r])>>]

_merge_reference_hits(ranked, q, limit_k) ==
    IF ~has_reference_constraint(q) THEN ranked
    ELSE MergeHits(ranked,
                   lookup_reference_units(
                        q.granth_name, q.chopai_number, q.prakran_number,
                        IF IsSome(q.prakran_range_start) /\ IsSome(q.prakran_range_end)
                        THEN Some(<<Val(q.prakran_range_start), Val(q.prakran_range_end)>>) ELSE None,
                        Max(limit_k * 5, 20)),
                   limit_k)

----------------------------------------------------------------------------
(* chat.py: ChatService.respond, one turn of the one session *)

\* QueryContext before any turn: the context of a message without any signal
NoQueryContext ==
    [intent |-> "general_qa", granth_name |-> None, prakran_number |-> None,
     prakran_range_start |-> None, prakran_range_end |-> None, chopai_number |-> None,
     requires_summary |-> FALSE, requires_count |-> FALSE, context_carried |-> FALSE,
     notes |-> << >>]

\* (filters.granth or "").strip() if filters else ""
StripFilter(value) == IF IsSome(value) THEN Strip(Val(value)) ELSE << >>

\* value or None
OrNone(text) == IF text # << >> THEN Some(text) ELSE None

\* respond, the retrieval of a turn: the candidates that survive the constraints
\* of q (constrained) and, of these, the ones the turn cites (strong_results)
Retrieve(q, found, limit_k, retrieval_prakran) ==
    LET grounded(pair) == ~RLess(pair[2], minimum_grounding_score)
        strong(diversified) == IF _is_ambiguous_reference(q, diversified) THEN << >> ELSE diversified
        cited(filtered) ==
            [constrained |-> filtered,
             strong_results |->
                strong(_diversify_reference_results(SelectSeq(filtered, grounded), q, Max(limit_k, 4)))]
    IN  cited(_apply_query_constraints(
                _merge_reference_hits(
                    _agentic_retrieve(found, limit_k, q.granth_name, retrieval_prakran), q, limit_k),
                q))

\* respond, what a turn leaves: the response and the session context
Answer(msg, filter_g, filter_p, k_in, prior, q, retrieved) ==
    /\ message' = msg
    /\ granth_filter' = filter_g
    /\ prakran_filter' = filter_p
    /\ top_k' = k_in
    /\ prior_context' = prior
    /\ query_context' = q
    /\ constrained' = retrieved.constrained
    /\ citations' = retrieved.strong_results
    /\ \E answered \in BOOLEAN :
            not_found' = IF retrieved.strong_results # << >> THEN ~answered ELSE TRUE
    /\ session' = Some(next_session_context(prior, q))
    /\ UNCHANGED <<llm_enabled, call, returned>>

\* respond from parse_query_context on, for the filters stripped and the session
\* context read
Turn(msg, filter_g, filter_p, granth_f, prakran_f, prior, top_ks, founds) ==
    \E q \in parse_query_context(msg, Granths, prior, OrNone(granth_f), OrNone(prakran_f)) :
        \E k_in \in top_ks, found \in founds :
            Answer(msg, filter_g, filter_p, k_in, prior, q,
                   IF llm_enabled
                   THEN Retrieve(q, found,
                                 IF IsSome(k_in) /\ Val(k_in) # 0 THEN Val(k_in) ELSE retrieval_top_k,
                                 IF prakran_f # << >> /\ ~has_prakran_constraint(q)
                                    /\ Lower(prakran_f) # <<"u", "n", "k", "n", "o", "w", "n", " ", "p", "r", "a", "k", "r", "a", "n">>
                                 THEN Some(prakran_f) ELSE None)
                   ELSE [constrained |-> << >>, strong_results |-> << >>])

\* One call of respond.  The request (message, filters, top_k), what the indexes
\* find and whether the language model answers from the citations are inputs.
Respond(messages, granth_filters, prakran_filters, top_ks, founds) ==
    \E msg \in messages, filter_g \in granth_filters, filter_p \in prakran_filters :
        Turn(msg, filter_g, filter_p, StripFilter(filter_g), StripFilter(filter_p),
             parse_session_context(session), top_ks, founds)

\* the state of every variable that a specification does not use
NoTurn ==
    /\ session = None
    /\ message = << >>
    /\ granth_filter = None
    /\ prakran_filter = None
    /\ top_k = None
    /\ prior_context = EmptySessionContext
    /\ query_context = NoQueryContext
    /\ constrained = << >>
    /\ citations = << >>
    /\ not_found = FALSE

NoCall == call = None /\ returned = None

----------------------------------------------------------------------------
(* The conversation: any number of turns of one session *)

Messages ==
    {<<"p", "r", "a", "k", "r", "a", "n", " ", "5">>,
     <<"s", "i", "n", "g", "a", "r", " ", "p", "r", "a", "k", "r", "a", "n", " ", "1", "4", "-", "1", "9">>,
     <<"t", "h", "a", "t", " ", "p", "r", "a", "k", "r", "a", "n">>,
     <<"c", "h", "a", "u", "p", "a", "i", " ", "4">>,
     <<"h", "e", "l", "l", "o">>}

GranthFilters == {None, Some(<<"S", "h", "r", "i", "K", "i", "r", "a", "n", "t", "a", "n", " ">>)}

PrakranFilters == {None}

\* ChatRequest.top_k: absent, or an int from 1 to 12
TopKs == {None}

\* what the two indexes find for a turn
Founds == {<< >>}

Init == NoTurn /\ NoCall /\ llm_enabled \in BOOLEAN

Next == Respond(Messages, GranthFilters, PrakranFilters, TopKs, Founds)

Spec == Init /\ [][Next]_vars

----------------------------------------------------------------------------
(* Properties of the conversation (Spec) *)

SessionFields ==
    {"granth_name", "prakran_number", "prakran_range_start", "prakran_range_end", "chopai_number"}

\* C1: the QueryContext that parse_query_context returns in a turn never has
\* prakran_number and the range prakran_range_start/prakran_range_end non-null
\* at the same time, whatever prior state the earlier turns have left.
C1_NumberExcludesRange ==
    ~(/\ IsSome(query_context.prakran_number)
      /\ IsSome(query_context.prakran_range_start)
      /\ IsSome(query_context.prakran_range_end))

\* C2: the state next_session_context returns, which the turn stores, holds in
\* each of its five fields the value of the turn's QueryContext when that value
\* is non-null, and the value of the prior state otherwise.
C2_FieldwiseMerge ==
    IsSome(session) =>
        \A field \in SessionFields :
            Val(session)[field] =
                IF IsSome(query_context[field]) THEN query_context[field]
                ELSE prior_context[field]

\* a turn that overwrote one field of the prior state and inherited another
C2_Witness ==
    /\ IsSome(session)
    /\ \E field \in SessionFields :
            /\ IsSome(query_context[field]) /\ IsSome(prior_context[field])
            /\ query_context[field] # prior_context[field]
            /\ Val(session)[field] = query_context[field]
    /\ \E field \in SessionFields :
            /\ ~IsSome(query_context[field]) /\ IsSome(prior_context[field])
            /\ Val(session)[field] = prior_context[field]

\* the values of max_span the engine uses (8, 20, 24) and the smallest ones
Spans == {0, 1, 2, 8, 20, 24}

\* C10: for a QueryContext that carries a range, in either order of its bounds,
\* and every max_span, prakran_numbers(max_span) has at most max_span + 1
\* elements and runs strictly increasing from the smaller bound towards the
\* larger one; for a single section number it is the list of that number alone.
C10_PrakranNumbers ==
    \A max_span \in Spans :
        LET numbers == prakran_numbers(query_context, max_span)
            a == Val(query_context.prakran_range_start)
            b == Val(query_context.prakran_range_end)
        IN  /\ (IsSome(query_context.prakran_range_start) /\ IsSome(query_context.prakran_range_end)) =>
                    /\ Len(numbers) <= max_span + 1
                    /\ Len(numbers) >= 1
                    /\ numbers[1] = (IF a <= b THEN a ELSE b)
                    /\ numbers[Len(numbers)] <= (IF a <= b THEN b ELSE a)
                    /\ \A i \in 1..(Len(numbers) - 1) : numbers[i] < numbers[i + 1]
            /\ IsSome(query_context.prakran_number) =>
                    numbers = <<Val(query_context.prakran_number)>>

----------------------------------------------------------------------------
(* parse_query_context as a function: one call on arguments drawn from the
   families below.  The arguments are in `call`, the result in `returned`. *)

\* prior states that turns of a conversation leave behind
Priors ==
    {EmptySessionContext,
     [EmptySessionContext EXCEPT !.granth_name = Some(Granths[2]), !.prakran_number = Some(14)],
     [EmptySessionContext EXCEPT !.granth_name = Some(Granths[1]), !.prakran_number = Some(5),
                                 !.prakran_range_start = Some(14), !.prakran_range_end = Some(19),
                                 !.chopai_number = Some(9)],
     [EmptySessionContext EXCEPT !.prakran_number = Some(5)],
     [EmptySessionContext EXCEPT !.granth_name = Some(Granths[2]),
                                 !.prakran_range_start = Some(14), !.prakran_range_end = Some(19)]}

\* numerals: their text and their value
Numerals ==
    {[text |-> <<"4">>, value |-> 4],
     [text |-> <<"7">>, value |-> 7],
     [text |-> <<"1", "9">>, value |-> 19],
     [text |-> <<"dev1", "dev4">>, value |-> 14],
     [text |-> <<"guj1", "guj9">>, value |-> 19],
     [text |-> <<"1", "0", "8">>, value |-> 108],
     [text |-> <<"1", "0", "0", "8">>, value |-> 1008]}

\* Messages with a verse keyword and a number that name no work and no section:
\* <verse-keyword> N and the reversed ordinal form N <verse-keyword>.
VerseMessages ==
    {[text |-> (IF asked THEN <<"w", "h", "a", "t", " ", "d", "i", "d", " ">> ELSE << >>) \o word \o gap \o n.text
                    \o (IF asked THEN <<" ", "s", "a", "y", "?">> ELSE << >>),
      chopai |-> n.value] :
        asked \in BOOLEAN,
        word \in {<<"c", "h", "a", "u", "p", "a", "i">>, <<"C", "h", "o", "p", "a", "i">>},
        gap \in {<< >>, <<" ">>},
        n \in {m \in Numerals : m.value \in {4, 14, 1008}}}
    \cup
    {[text |-> n.text \o suffix \o <<" ">> \o word, chopai |-> n.value] :
        n \in {m \in Numerals : m.value \in {4, 14}},
        suffix \in {<< >>, <<"t", "h">>},
        word \in {<<"c", "h", "a", "u", "p", "a", "i">>, <<"c", "h", "o", "p", "a", "i">>}}

\* aliases of the known works, with the work each one names
WorkAliases ==
    {[text |-> <<"s", "i", "n", "g", "a", "r">>, work |-> Granths[2]],
     [text |-> <<"S", "h", "r", "i", " ", "S", "i", "n", "g", "a", "a", "r", " ", "g", "r", "a", "n", "t", "h">>, work |-> Granths[2]],
     [text |-> <<"k", "i", "r", "t", "a", "n">>, work |-> Granths[1]]}

\* the pairs N, M of the range messages: increasing, decreasing, of three digits,
\* of four digits
NumeralPairs ==
    {<<n, m>> \in Numerals \X Numerals :
        \/ n.value = 14 /\ m.text = <<"guj1", "guj9">>
        \/ n.text = <<"1", "9">> /\ m.value = 7
        \/ n.value = 108 /\ m.text = <<"1", "9">>
        \/ n.text = <<"7">> /\ m.value = 1008}

\* Messages <alias> <section-keyword> N <connector> M <summary word>, and the same
\* with the alias at the end, without a verse keyword.
RangeMessages ==
    {[text |-> IF front
               THEN alias.text \o <<" ">> \o word \o <<" ">> \o pair[1].text \o link \o pair[2].text
                        \o <<" ", "s", "u", "m", "m", "a", "r", "y">>
               ELSE word \o pair[1].text \o link \o pair[2].text \o <<" ", "e", "x", "p", "l", "a", "i", "n", " ">> \o alias.text,
      start |-> pair[1].value, end |-> pair[2].value, work |-> alias.work] :
        front \in BOOLEAN,
        alias \in WorkAliases,
        word \in {<<"p", "r", "a", "k", "r", "a", "n">>, <<"P", "r", "a", "k", "a", "r", "a", "n">>},
        pair \in NumeralPairs,
        link \in {<<" ", "t", "o", " ">>, <<" ", "s", "e", " ">>, <<"t", "h", "i">>, <<"-">>}}

\* messages without any work, section or verse, and without a word of the hint
\* tables
PlainMessages ==
    {<<"w", "h", "o", " ", "i", "s", " ", "k", "r", "i", "s", "h", "n", "a">>, <<"s", "a", "c", "r", "e", "d", " ", "t", "e", "x", "t">>, <<"i", " ", "a", "m", " ", "s", "h", "u", "t", " ", "o", "u", "t">>}

\* messages that combine the signals: a section keyword alone or with a cue, a
\* summary word, a count word with the verse keyword, a verse with a range
MixedMessages ==
    {<<"p", "r", "a", "k", "r", "a", "n", " ", "t", "e", "x", "t">>, <<"p", "r", "a", "k", "r", "a", "n", " ", "e", "x", "p", "l", "a", "i", "n">>, <<"e", "x", "p", "l", "a", "i", "n", " ", "t", "h", "i", "s">>, <<"h", "o", "w", " ", "m", "a", "n", "y", " ", "c", "h", "a", "u", "p", "a", "i">>,
     <<"c", "h", "a", "u", "p", "a", "i", " ", "4", " ", "p", "r", "a", "k", "r", "a", "n", " ", "1", "4", " ", "t", "o", " ", "1", "9">>, <<"p", "r", "a", "k", "r", "a", "n", " ", "7", " ", "e", "x", "p", "l", "a", "i", "n">>}

ParseMessages ==
    {r.text : r \in VerseMessages} \cup {r.text : r \in RangeMessages} \cup Messages
        \cup PlainMessages \cup MixedMessages

\* filter_granth and filter_prakran as respond passes them: None or a stripped, non-empty text
ParseGranthFilters == {None, Some(Granths[1])}

ParsePrakranFilters == {None, Some(<<"P", "r", "a", "k", "r", "a", "n", " ", "1", "5">>)}

ParseCalls ==
    {[op |-> "parse_query_context", message |-> m, prior |-> p, filter_granth |-> g,
      filter_prakran |-> f] :
        m \in ParseMessages, p \in Priors, g \in ParseGranthFilters, f \in ParsePrakranFilters}

InitParse == NoTurn /\ llm_enabled = FALSE /\ call \in ParseCalls /\ returned = None

Parse ==
    /\ call.op = "parse_query_context"
    /\ returned = None
    /\ \E q \in parse_query_context(call.message, Granths, call.prior, call.filter_granth,
                                    call.filter_prakran) :
            returned' = Some(q)
    /\ UNCHANGED <<session, llm_enabled, message, granth_filter, prakran_filter, top_k,
                   prior_context, query_context, constrained, citations, not_found, call>>

SpecParse == InitParse /\ [][Parse]_vars

----------------------------------------------------------------------------
(* Properties of parse_query_context (SpecParse) *)

\* the prior state holds a work name and a single section number
PriorHoldsWorkAndSection(prior) == IsSome(prior.granth_name) /\ IsSome(prior.prakran_number)

\* what C3 expects of the result q for the verse message r and the prior state
VerseCarried(r, prior, q) ==
    /\ q.chopai_number = Some(r.chopai)
    /\ q.granth_name = prior.granth_name
    /\ q.prakran_number = prior.prakran_number
    /\ q.context_carried = TRUE

\* C3 as stated, for every client filter: a message with a verse keyword and a
\* number that names no work and no section, parsed against a prior state that
\* holds a work name and a single section number, gets chopai_number from the
\* message, granth_name and prakran_number from the prior state, and
\* context_carried = true.
C3_AsStated ==
    \A r \in VerseMessages :
        (IsSome(returned) /\ call.message = r.text /\ PriorHoldsWorkAndSection(call.prior))
            => VerseCarried(r, call.prior, Val(returned))

\* C3, amended: the same when the client supplies neither a work filter nor a
\* section filter.
C3_CarriesWorkAndSection ==
    \A r \in VerseMessages :
        (/\ IsSome(returned) /\ call.message = r.text /\ PriorHoldsWorkAndSection(call.prior)
         /\ call.filter_granth = None /\ call.filter_prakran = None)
            => VerseCarried(r, call.prior, Val(returned))

\* "4th chaupai" parsed against the prior state {ShriSingaar, 14}, without filters
C3_Witness ==
    /\ IsSome(returned)
    /\ call.message \in {r.text : r \in VerseMessages}
    /\ PriorHoldsWorkAndSection(call.prior)
    /\ call.filter_granth = None /\ call.filter_prakran = None
    /\ Val(returned).chopai_number = Some(4)
    /\ Val(returned).prakran_number = Some(14)
    /\ Val(returned).granth_name = Some(Granths[2])
    /\ Val(returned).context_carried

\* what C4 expects of the result q for the range message r
RangeSummary(r, q) ==
    /\ q.intent = "prakran_range_summary"
    /\ q.prakran_range_start = Some(r.start)
    /\ q.prakran_range_end = Some(r.end)
    /\ q.prakran_number = None
    /\ q.requires_summary = TRUE
    /\ q.granth_name = Some(r.work)

\* C4 as stated, for every client filter and prior state: a message
\* <section-keyword> N <connector> M with a summary word and an alias of a known
\* work, without a verse keyword, gets intent prakran_range_summary, the range
\* N..M, no prakran_number, requires_summary = true and that work as granth_name.
C4_AsStated ==
    \A r \in RangeMessages :
        (IsSome(returned) /\ call.message = r.text) => RangeSummary(r, Val(returned))

\* C4, amended: the same when the client supplies no work filter and N and M
\* have at most three digits.
C4_RangeWithAlias ==
    \A r \in RangeMessages :
        (/\ IsSome(returned) /\ call.message = r.text /\ call.filter_granth = None
         /\ r.start < 1000 /\ r.end < 1000)
            => RangeSummary(r, Val(returned))

\* the numbers of <section-keyword> N <connector> M are read to three digits:
\* of "7 to 1008" the range kept is 7..100
C4_FourDigitsCut ==
    \E r \in RangeMessages :
        /\ IsSome(returned) /\ call.message = r.text /\ call.filter_granth = None
        /\ r.end = 1008
        /\ Val(returned).prakran_range_start = Some(7)
        /\ Val(returned).prakran_range_end = Some(100)

\* a range written in decreasing order, with a prior state that holds a section
\* number and a section filter from the client
C4_Witness ==
    /\ IsSome(returned)
    /\ call.message \in {r.text : r \in RangeMessages}
    /\ call.filter_granth = None
    /\ call.filter_prakran # None
    /\ IsSome(call.prior.prakran_number)
    /\ Val(returned).prakran_range_start = Some(19)
    /\ Val(returned).prakran_range_end = Some(7)
    /\ Val(returned).granth_name = Some(Granths[1])

----------------------------------------------------------------------------
(* The retrieval steps of a turn: few messages, every top_k and index result *)

RetrievalMessages ==
    {<<"c", "h", "a", "u", "p", "a", "i", " ", "4">>,
     <<"s", "i", "n", "g", "a", "r", " ", "c", "h", "a", "u", "p", "a", "i", " ", "4">>,
     <<"h", "e", "l", "l", "o">>,
     <<"k", "i", "r", "t", "a", "n", " ", "c", "h", "o", "p", "a", "i", " ", "9">>,
     <<"p", "r", "a", "k", "r", "a", "n", " ", "7", "-", "1", "4">>}

RetrievalTopKs == {None, Some(2)}

RetrievalFounds ==
    {<< >>,
     <<<<chopai_units[5], <<1, 2>>>>, <<chopai_units[1], <<1, 20>>>>>>,
     <<<<chopai_units[6], <<3, 10>>>>, <<chopai_units[2], <<1, 100>>>>>>}

NextRetrieval == Respond(RetrievalMessages, {None}, {None}, RetrievalTopKs, RetrievalFounds)

SpecRetrieval == Init /\ [][NextRetrieval]_vars

\* the works of a list of <<unit, score>> pairs
WorksOf(pairs) == {pairs[i][1].granth_name : i \in DOMAIN pairs}

\* C6: when the query of a turn carries a verse number and no work name (none
\* supplied, detected or inherited) and the candidates that survive
\* _apply_query_constraints come from two or more works, the turn returns no
\* citations and not_found = true.
C6_AmbiguousVerseIsEmpty ==
    (/\ IsSome(session)
     /\ IsSome(query_context.chopai_number)
     /\ ~IsSome(query_context.granth_name)
     /\ Cardinality(WorksOf(constrained)) >= 2)
        => (citations = << >> /\ not_found = TRUE)

\* a turn in which the guard does discard the candidates of two works
C6_GuardFires ==
    /\ IsSome(session)
    /\ llm_enabled
    /\ IsSome(query_context.chopai_number)
    /\ ~IsSome(query_context.granth_name)
    /\ Cardinality(WorksOf(constrained)) >= 2
    /\ citations = << >>
    /\ not_found = TRUE

----------------------------------------------------------------------------
(* reciprocal_rank_fusion as a function *)

\* the longest stream
MaxStreamLen == 2

FusionUnits == {"A", "B", "C"}

\* a unit with nothing but its id
Bare(id) == Unit(id, Granths[1], << >>, None, None, None, << >>)

\* scores by position: 0.9, 0.8, ... (falling) or the same rising
StreamScore(falling, position) ==
    IF falling THEN <<10 - position, 10>> ELSE <<5 + position, 10>>

\* the occurrence of a unit at a position of a stream, told from its other
\* occurrences by its text
Occurrence(id, position) ==
    [Bare(id) EXCEPT !.chunk_text = Str(position), !.normalized_text = Str(position)]

\* streams that hold a unit twice, with another unit scored between the two
RepeatStreams ==
    {[i \in DOMAIN ids |-> <<Occurrence(ids[i], i), StreamScore(falling, i)>>] :
        ids \in {<<"A", "B", "A">>, <<"B", "C", "B">>}, falling \in BOOLEAN}

\* the streams: units in any order, repeated or not, scored falling or rising
Streams ==
    {[i \in DOMAIN ids |-> <<Bare(ids[i]), StreamScore(falling, i)>>] :
        ids \in UNION {[1..n -> FusionUnits] : n \in 0..MaxStreamLen}, falling \in BOOLEAN}
        \cup RepeatStreams

FusionCalls ==
    {[op |-> "reciprocal_rank_fusion", lexical |-> l, vector |-> v, k |-> 50] :
        l \in Streams, v \in Streams}

InitFusion == NoTurn /\ llm_enabled = FALSE /\ call \in FusionCalls /\ returned = None

Fuse ==
    /\ call.op = "reciprocal_rank_fusion"
    /\ returned = None
    /\ returned' = Some(reciprocal_rank_fusion(call.lexical, call.vector, call.k))
    /\ UNCHANGED <<session, llm_enabled, message, granth_filter, prakran_filter, top_k,
                   prior_context, query_context, constrained, citations, not_found, call>>

SpecFusion == InitFusion /\ [][Fuse]_vars

\* the position of unit id in a fused list, 0 when the list lacks it
PlaceIn(fused, id) ==
    IF \E r \in DOMAIN fused : fused[r].unit.id = id
    THEN CHOOSE r \in DOMAIN fused : fused[r].unit.id = id ELSE 0

\* C5: in the list reciprocal_rank_fusion returns, a unit of both streams stands
\* before every unit of only one stream whose rank there is no better than the
\* better of the shared unit's two ranks; a unit of rank 1 in both streams is
\* first; and lexical [A 0.9, B 0.8] fused with vector [B 0.9, C 0.8] at k = 50
\* puts B first.
C5_SharedOutranksSingle ==
    IsSome(returned) =>
        LET fused == Val(returned)
            lex(id) == RankIn(RankedStream(call.lexical), id)
            vec(id) == RankIn(RankedStream(call.vector), id)
            better(id) == IF lex(id) <= vec(id) THEN lex(id) ELSE vec(id)
        IN  /\ \A shared \in FusionUnits, single \in FusionUnits :
                    (/\ lex(shared) # 0 /\ vec(shared) # 0
                     /\ (lex(single) = 0) # (vec(single) = 0)
                     /\ lex(single) + vec(single) >= better(shared))
                        => /\ PlaceIn(fused, shared) # 0
                           /\ PlaceIn(fused, single) # 0
                           /\ PlaceIn(fused, shared) < PlaceIn(fused, single)
            /\ \A id \in FusionUnits : (lex(id) = 1 /\ vec(id) = 1) => PlaceIn(fused, id) = 1
            /\ (/\ call.lexical = <<<<Bare("A"), <<9, 10>>>>, <<Bare("B"), <<8, 10>>>>>>
                /\ call.vector = <<<<Bare("B"), <<9, 10>>>>, <<Bare("C"), <<8, 10>>>>>>)
                    => fused[1].unit.id = "B"

\* the fusion of lexical [A, B] with vector [B, C], with B first
C5_Witness ==
    /\ IsSome(returned)
    /\ call.lexical = <<<<Bare("A"), <<9, 10>>>>, <<Bare("B"), <<8, 10>>>>>>
    /\ call.vector = <<<<Bare("B"), <<9, 10>>>>, <<Bare("C"), <<8, 10>>>>>>
    /\ Len(Val(returned)) = 3
    /\ Val(returned)[1].unit.id = "B"

----------------------------------------------------------------------------
(* unit_matches_prakran as a function *)

\* n letters, to fill a text up to the 900 characters the function reads
Pad(n) == [i \in 1..n |-> "x"]

MatchNames ==
    {<<"P", "r", "a", "k", "r", "a", "n", " ", "1", "4">>, <<"P", "r", "a", "k", "r", "a", "n", " ", "1", "5">>, <<"P", "r", "a", "k", "r", "a", "n", " ", "0", "1", "4">>, <<"p", "r", "a", "k", "r", "a", "n", " ", "dev1", "dev4">>,
     <<"U", "n", "k", "n", "o", "w", "n", " ", "P", "r", "a", "k", "r", "a", "n">>, << >>}

MatchTexts ==
    {<< >>, <<"p", "i", "y", "a", " ", "s", "i", "n", "g", "a", "r">>, <<"(", "1", "4", "5", ")">>, <<"2", "1", "4", ")">>, <<"-", "1", "4", "-">>, <<"d", "h", "a", "m", " ", "1", "4", " ", "d", "h", "a", "n", "i">>,
     <<"1", "4", "5">>, <<"(", "1", "4", ")">>, Pad(MatchPrefixLen - 2) \o <<"1", "4">>, Pad(MatchPrefixLen - 1) \o <<"1", "4">>}

MatchUnits ==
    {Unit("u", Granths[2], name, number, None, None, text) :
        name \in MatchNames, number \in {None, Some(14), Some(15)}, text \in MatchTexts}

MatchCalls ==
    {[op |-> "unit_matches_prakran", unit |-> u, prakran_number |-> n] :
        u \in MatchUnits, n \in {1, 14}}

InitMatch == NoTurn /\ llm_enabled = FALSE /\ call \in MatchCalls /\ returned = None

Match ==
    /\ call.op = "unit_matches_prakran"
    /\ returned = None
    /\ returned' = Some(unit_matches_prakran(call.unit, call.prakran_number))
    /\ UNCHANGED <<session, llm_enabled, message, granth_filter, prakran_filter, top_k,
                   prior_context, query_context, constrained, citations, not_found, call>>

SpecMatch == InitMatch /\ [][Match]_vars

\* C8: unit_matches_prakran(unit, N) is true whenever unit.prakran_number = N,
\* whatever the section name and the text of the unit hold.
C8_StructuredNumberMatches ==
    (IsSome(returned) /\ call.unit.prakran_number = Some(call.prakran_number))
        => Val(returned) = TRUE

\* the text C9 speaks of: the section name and the first 900 characters of the
\* raw and of the normalized text, digits in ASCII
ExaminedText(unit) ==
    JoinBlank(<<_normalize_digits(unit.prakran_name),
                _normalize_digits(Prefix(unit.chunk_text, MatchPrefixLen)),
                _normalize_digits(Prefix(unit.normalized_text, MatchPrefixLen))>>)

\* an occurrence of the numeral of N that has no digit on either side, or stands
\* between two hyphens, or between parentheses
BoundarySafe(text, n) ==
    \/ SearchUnadjacent(text, Str(n))
    \/ Contains(text, <<"-">> \o Str(n) \o <<"-">>)
    \/ Contains(text, <<"(">> \o Str(n) \o <<")">>)

\* C9: unit_matches_prakran(unit, N) is false whenever unit.prakran_number
\* differs from N and the examined text holds no boundary-safe occurrence of N.
C9_NoSafeOccurrenceNoMatch ==
    (/\ IsSome(returned)
     /\ call.unit.prakran_number # Some(call.prakran_number)
     /\ ~BoundarySafe(ExaminedText(call.unit), call.prakran_number))
        => Val(returned) = FALSE

----------------------------------------------------------------------------
(* _diversify_reference_results as a function *)

\* the candidates of each section
PerSection == 3

\* the sections that have candidates: 14, 15, ...
SectionCount == 3

CandidateSections == 14..(13 + SectionCount)

\* candidate j of section n, named "Prakran n"
Candidate(n, j) ==
    Unit(<<n, j>>, Granths[2], <<"P", "r", "a", "k", "r", "a", "n", " ">> \o Str(n), Some(n), None, None, <<"s", "u", "n", "d", "a", "r", " ", "s", "a", "r", "u", "p">>)

\* candidates beside those: one whose text names two sections, one that names none
Strays ==
    <<Unit(<<0, 1>>, Granths[2], <<"U", "n", "k", "n", "o", "w", "n", " ", "P", "r", "a", "k", "r", "a", "n">>, None, None, None, <<"-", "1", "4", "-", " ", "(", "1", "5", ")">>),
      Unit(<<0, 2>>, Granths[2], <<"U", "n", "k", "n", "o", "w", "n", " ", "P", "r", "a", "k", "r", "a", "n">>, None, None, None, <<"d", "h", "a", "m", " ", "d", "h", "a", "n", "i">>)>>

\* the scores of the candidates: 0.1 to 0.7, spread over sections and positions
\* by the weights a and b
Layouts == {<<0, 1>>, <<1, 0>>, <<1, 1>>, <<2, 3>>, <<3, 1>>, <<0, 0>>}

LayoutScore(layout, n, j) == <<1 + ((layout[1] * (n - 13) + layout[2] * j) % 7), 10>>

\* the candidate list: section by section, then the strays asked for
CandidateList(layout, strays) ==
    [i \in 1..(SectionCount * PerSection) |->
        LET n == 14 + ((i - 1) \div PerSection)
            j == 1 + ((i - 1) % PerSection)
        IN  <<Candidate(n, j), LayoutScore(layout, n, j)>>]
    \o [i \in 1..strays |-> <<Strays[i], <<4 * i, 10>>>>]

\* a QueryContext that carries the range start..end and nothing else
RangeQuery(start, end) ==
    [NoQueryContext EXCEPT !.intent = "prakran_range_summary",
                           !.prakran_range_start = Some(start), !.prakran_range_end = Some(end),
                           !.requires_summary = TRUE]

\* the contexts of the calls: ranges, and a single section
DiversifyQueries ==
    {RangeQuery(range[1], range[2]) :
        range \in {<<14, 13 + SectionCount>>, <<13 + SectionCount, 14>>, <<14, 15>>, <<13, 19>>}}
        \cup {[NoQueryContext EXCEPT !.prakran_number = Some(14)]}

DiversifyCalls ==
    {[op |-> "_diversify_reference_results", ranked_pairs |-> CandidateList(layout, strays),
      q |-> q, max_items |-> max_items] :
        layout \in Layouts,
        strays \in 0..2,
        q \in DiversifyQueries,
        max_items \in {4, 6, 12}}
        \cup {[op |-> "_diversify_reference_results", ranked_pairs |-> << >>, q |-> q,
               max_items |-> 4] : q \in DiversifyQueries}

InitDiversify == NoTurn /\ llm_enabled = FALSE /\ call \in DiversifyCalls /\ returned = None

\* the call returns `result`; `primary` is its list diversified when the loop over
\* the sorted candidates ends, before any candidate of overflow is added
Diversify ==
    /\ call.op = "_diversify_reference_results"
    /\ returned = None
    /\ returned' =
            Some([result |-> _diversify_reference_results(call.ranked_pairs, call.q, call.max_items),
                  primary |-> DiversifyPrimary(call.ranked_pairs, call.q, call.max_items).diversified])
    /\ UNCHANGED <<session, llm_enabled, message, granth_filter, prakran_filter, top_k,
                   prior_context, query_context, constrained, citations, not_found, call>>

SpecDiversify == InitDiversify /\ [][Diversify]_vars

\* the candidates of a list that count for the requested section number n
CountedFor(pairs, requested, n) ==
    {i \in DOMAIN pairs : FirstMatched(pairs[i][1], requested) = Some(n)}

\* the range covers three section numbers or more, and each has three candidates or more
WideRangeWellStocked ==
    LET requested == prakran_numbers(call.q, 24)
    IN  /\ Len(requested) >= 3
        /\ \A n \in Range(requested) : Cardinality(CountedFor(call.ranked_pairs, requested, n)) >= 3

\* C7: for a range query that covers at least 3 section numbers with at least 3
\* candidates each, the primary (pre-overflow) list of
\* _diversify_reference_results holds at most 2 candidates for each requested
\* section number.
C7_TwoPerSection ==
    (IsSome(returned) /\ WideRangeWellStocked) =>
        \A n \in Range(prakran_numbers(call.q, 24)) :
            Cardinality(CountedFor(Val(returned).primary, prakran_numbers(call.q, 24), n)) <= 2

\* a call in which the cap holds candidates back: the primary list is full for
\* section 14 and a third candidate of it scores above candidates admitted
C7_Witness ==
    /\ IsSome(returned)
    /\ WideRangeWellStocked
    /\ call.max_items = 12
    /\ Cardinality(CountedFor(Val(returned).primary, prakran_numbers(call.q, 24), 14)) = 2
    /\ Len(Val(returned).primary) = 2 * SectionCount
    /\ Len(Val(returned).result) > Len(Val(returned).primary)

----------------------------------------------------------------------------
(* unit_matches_query and _apply_query_constraints as functions *)

\* units beside chopai_units: verse numbers recorded in other forms
FilterUnits ==
    {chopai_units[i] : i \in DOMAIN chopai_units}
    \cup
    {Unit("d4", Granths[2], <<"P", "r", "a", "k", "r", "a", "n", " ", "1", "4">>, Some(14), Some(<<"dev4">>), None, <<"p", "i", "y", "a">>),
     Unit("i4", Granths[2], <<"P", "r", "a", "k", "r", "a", "n", " ", "1", "5">>, Some(15), None, Some(4), <<"p", "i", "y", "a">>),
     Unit("v4", Granths[1], <<"P", "r", "a", "k", "r", "a", "n", " ", "7">>, Some(7), Some(<<"v", " ", "0", "4", ".">>), Some(9), <<"d", "h", "a", "m">>),
     Unit("n14", Granths[2], <<"P", "r", "a", "k", "r", "a", "n", " ", "1", "6">>, Some(16), Some(<<"1", "4">>), Some(1), <<"m", "u", "k", "h">>),
     Unit("e0", Granths[1], <<"U", "n", "k", "n", "o", "w", "n", " ", "P", "r", "a", "k", "r", "a", "n">>, None, Some(<< >>), None, <<"(", "7", ")", " ", "d", "h", "a", "m">>)}

\* the QueryContexts asked of the filter: a work or none, a verse number or none,
\* and a section number, a range (in either order), both or none
FilterQueries ==
    {[NoQueryContext EXCEPT !.granth_name = g, !.chopai_number = c, !.prakran_number = n,
                            !.prakran_range_start = r[1], !.prakran_range_end = r[2]] :
        g \in {None, Some(Granths[1]), Some(Granths[2])},
        c \in {None, Some(4), Some(9), Some(1)},
        n \in {None, Some(14), Some(7)},
        r \in {<<None, None>>, <<Some(14), Some(16)>>, <<Some(16), Some(14)>>}}

\* ranked lists: the rows of chopai_units from..to with falling or rising scores
FilterRankings ==
    {[i \in 1..(to - from + 1) |->
        <<chopai_units[from + i - 1], <<(IF falling THEN 9 - i ELSE i), 10>>>>] :
        from \in {1, 3, 5}, to \in {0, 4, 6}, falling \in BOOLEAN}

FilterCalls ==
    {[op |-> "unit_matches_query", unit |-> u, q |-> q] : u \in FilterUnits, q \in FilterQueries}
    \cup
    {[op |-> "_apply_query_constraints", ranked |-> ranked, q |-> q] :
        ranked \in FilterRankings, q \in FilterQueries}

InitFilter == NoTurn /\ llm_enabled = FALSE /\ call \in FilterCalls /\ returned = None

MatchQuery ==
    /\ call.op = "unit_matches_query"
    /\ returned = None
    /\ returned' = Some(unit_matches_query(call.unit, call.q))
    /\ UNCHANGED <<session, llm_enabled, message, granth_filter, prakran_filter, top_k,
                   prior_context, query_context, constrained, citations, not_found, call>>

ApplyConstraints ==
    /\ call.op = "_apply_query_constraints"
    /\ returned = None
    /\ returned' = Some(_apply_query_constraints(call.ranked, call.q))
    /\ UNCHANGED <<session, llm_enabled, message, granth_filter, prakran_filter, top_k,
                   prior_context, query_context, constrained, citations, not_found, call>>

NextFilter == MatchQuery \/ ApplyConstraints

SpecFilter == InitFilter /\ [][NextFilter]_vars

\* the candidate of a ranked list matches the query
PairMatches(pair) == unit_matches_query(pair[1], call.q)

\* C11: with a reference constraint in the context, _apply_query_constraints
\* returns exactly the input candidates for which unit_matches_query holds, in
\* input order and with their scores, and the empty list when none matches;
\* without a constraint it returns the input unchanged.
C11_ExactlyTheMatching ==
    (IsSome(returned) /\ call.op = "_apply_query_constraints") =>
        /\ has_reference_constraint(call.q) => Val(returned) = SelectSeq(call.ranked, PairMatches)
        /\ (has_reference_constraint(call.q) /\ \A i \in DOMAIN call.ranked : ~PairMatches(call.ranked[i]))
                => Val(returned) = << >>
        /\ ~has_reference_constraint(call.q) => Val(returned) = call.ranked

\* a constrained call on candidates of which none matches: the result is empty
C11_Witness ==
    /\ IsSome(returned) /\ call.op = "_apply_query_constraints"
    /\ has_reference_constraint(call.q)
    /\ Len(call.ranked) >= 4
    /\ \A i \in DOMAIN call.ranked : ~PairMatches(call.ranked[i])
    /\ Val(returned) = << >>

\* the number in a recorded verse number: the value of its first run of digits
\* (of any of the three scripts), None when it has no digit or is not recorded
RecordedVerse(unit) ==
    IF ~IsSome(unit.chopai_number) THEN None
    ELSE LET text == Val(unit.chopai_number)
             digits == {i \in DOMAIN text : IsDigit(text[i])}
             first == Min(digits)
             run == {i \in digits : i >= first /\ \A j \in first..i : j \in digits}
         IN  IF digits = {} THEN None
             ELSE Some(ToInt(_normalize_digits([i \in 1..Cardinality(run) |-> text[first + i - 1]])))

\* the work and the section constraints of the query are met by the unit
WorkMet(unit, query) ==
    IsSome(query.granth_name) => unit.granth_name = Val(query.granth_name)

SectionMet(unit, query) ==
    prakran_numbers(query, 20) = << >>
        \/ \E n \in Range(prakran_numbers(query, 20)) : unit_matches_prakran(unit, n)

\* C12: unit_matches_query rejects every unit of a work other than the required
\* one; with a required verse number V, a unit that meets the work and section
\* constraints is accepted exactly when the number in its recorded chopai_number
\* is V or its prakran_chopai_index is V.
C12_WorkAndVerse ==
    (IsSome(returned) /\ call.op = "unit_matches_query") =>
        /\ ~WorkMet(call.unit, call.q) => Val(returned) = FALSE
        /\ (IsSome(call.q.chopai_number) /\ WorkMet(call.unit, call.q) /\ SectionMet(call.unit, call.q))
                => (Val(returned) <=>
                        \/ RecordedVerse(call.unit) = call.q.chopai_number
                        \/ call.unit.prakran_chopai_index = call.q.chopai_number)

\* a unit without a recorded verse number, accepted for its position in the section
C12_Witness ==
    /\ IsSome(returned) /\ call.op = "unit_matches_query"
    /\ call.q.chopai_number = Some(4)
    /\ IsSome(call.q.granth_name)
    /\ call.unit.chopai_number = None
    /\ call.unit.prakran_chopai_index = Some(4)
    /\ Val(returned) = TRUE

----------------------------------------------------------------------------
(* text_quality.py and retrieval.py: RetrievalService.search *)

RMul(a, b) == <<a[1] * b[1], a[2] * b[2]>>

\* garbled_ratio.  "mojibake" stands for a character of _GARBLED_PATTERN, "ctl"
\* for a control character other than \n, \t and \r.
garbled_ratio(text) ==
    IF text = << >> THEN RZero
    ELSE <<Cardinality({i \in DOMAIN text : text[i] \in {"mojibake", "ctl"}}), Len(text)>>

readability_multiplier(unit) ==
    LET sample == Prefix(unit.chunk_text, 1200) \o <<"\n">> \o Prefix(unit.meaning_text, 400) \o <<"\n">>
                    \o Prefix(JoinBlank(Prefix(unit.chopai_lines, 2)), 300)
        ratio == garbled_ratio(sample)
    IN  IF ~RLess(ratio, <<3, 100>>) THEN <<35, 100>>
        ELSE IF ~RLess(ratio, <<15, 1000>>) THEN <<60, 100>>
        ELSE <<1, 1>>

\* key=lambda item: item.score * readability_multiplier(item.unit)
ReadableScore(item) == RMul(item.score, readability_multiplier(item.unit))

\* the lists of a sequence of lists, one after the other
RECURSIVE Extend(_)
Extend(lists) == IF Len(lists) = 0 THEN << >> ELSE Head(lists) \o Extend(Tail(lists))

\* RetrievalService.search.  The collaborators are the environment's:
\*   lexical[v]  what db.search_fts does for variant v: it raises, or returns hits
\*               (<<unit, score>> pairs);
\*   available   VectorStore.available;
\*   vector[v]   what collection.query does for variant v: it raises, or returns
\*               hits (<<id, score>> pairs);
\*   by_id       the units that db.fetch_units_by_ids finds.
\* The variants of the query are DOMAIN lexical (= DOMAIN vector).  The result is
\* the exception that leaves search (raised) or the list it returns (results).
search(lexical, available, vector, by_id, limit_k) ==
    LET resolved(hits) ==
            LET known == {i \in DOMAIN hits : \E u \in by_id : u.id = hits[i][1]}
            IN  [r \in DOMAIN AtPositions(hits, known) |->
                    <<CHOOSE u \in by_id : u.id = AtPositions(hits, known)[r][1],
                      AtPositions(hits, known)[r][2]>>]
        lexical_ranked == Extend([v \in DOMAIN lexical |-> lexical[v].hits])
        \* VectorStore.query returns [] when collection.query raises
        vector_ranked ==
            IF available
            THEN Extend([v \in DOMAIN vector |->
                            IF vector[v].raises THEN << >> ELSE resolved(vector[v].hits)])
            ELSE << >>
    IN  IF Len(lexical) = 0 THEN [raised |-> FALSE, results |-> << >>]
        ELSE IF \E v \in DOMAIN lexical : lexical[v].raises THEN [raised |-> TRUE, results |-> << >>]
        ELSE [raised |-> FALSE,
              results |-> Prefix(SortDescBy(reciprocal_rank_fusion(lexical_ranked, vector_ranked, 50),
                                            ReadableScore),
                                 limit_k)]

----------------------------------------------------------------------------
(* RetrievalService.search as a function *)

\* the variants of a query: 0 (nothing to search for) to MaxVariants
MaxVariants == 2

\* a unit with the texts that search reads
Passage(id, chunk_text, meaning_text, chopai_lines) ==
    [meaning_text |-> meaning_text, chopai_lines |-> chopai_lines]
        @@ Unit(id, Granths[1], << >>, None, None, None, chunk_text)

\* A reads well; 1 character in 3 of B is garbled; 1 in 40 of C is
SearchUnits ==
    {Passage("A", <<"d", "h", "a", "m", " ", "d", "h", "a", "n", "i">>, <<"a", "b", "o", "d", "e">>, <<<<"d", "h", "a", "m">>, <<"d", "h", "a", "n", "i">>>>),
     Passage("B", <<"mojibake">>, << >>, << >>),
     Passage("C", <<"ctl">> \o Pad(37), << >>, << >>)}

SearchUnit(id) == CHOOSE u \in SearchUnits : u.id = id

\* what db.search_fts may do for one variant
LexicalOutcomes ==
    {[raises |-> TRUE, hits |-> << >>],
     [raises |-> FALSE, hits |-> << >>],
     [raises |-> FALSE, hits |-> <<<<SearchUnit("A"), <<9, 10>>>>, <<SearchUnit("B"), <<8, 10>>>>>>],
     [raises |-> FALSE, hits |-> <<<<SearchUnit("C"), <<5, 10>>>>>>]}

\* what collection.query may do for one variant; no unit has the id "Z"
VectorOutcomes ==
    {[raises |-> TRUE, hits |-> << >>],
     [raises |-> FALSE, hits |-> << >>],
     [raises |-> FALSE, hits |-> <<<<"B", <<9, 10>>>>, <<"C", <<8, 10>>>>>>],
     [raises |-> FALSE, hits |-> <<<<"Z", <<9, 10>>>>, <<"A", <<4, 10>>>>>>]}

SearchCalls ==
    {[op |-> "search", lexical |-> l, available |-> a, vector |-> v, top_k |-> k] :
        l \in UNION {[1..n -> LexicalOutcomes] : n \in 0..MaxVariants},
        a \in BOOLEAN,
        v \in UNION {[1..n -> VectorOutcomes] : n \in 0..MaxVariants},
        k \in {1, 8}}

InitSearch ==
    /\ NoTurn /\ llm_enabled = FALSE /\ returned = None
    /\ call \in {c \in SearchCalls : Len(c.lexical) = Len(c.vector)}

Search ==
    /\ call.op = "search"
    /\ returned = None
    /\ returned' = Some(search(call.lexical, call.available, call.vector, SearchUnits, call.top_k))
    /\ UNCHANGED <<session, llm_enabled, message, granth_filter, prakran_filter, top_k,
                   prior_context, query_context, constrained, citations, not_found, call>>

SpecSearch == InitSearch /\ [][Search]_vars

\* the outcomes of an adapter with every failure replaced by an empty list
Degraded(outcomes) == [v \in DOMAIN outcomes |-> [raises |-> FALSE, hits |-> outcomes[v].hits]]

\* C13: when the lexical adapter or the vector adapter fails during search, the
\* failing stream counts as empty: search raises nothing and returns what it
\* returns when the failing calls answer with an empty list.
C13_FailureDegrades ==
    (IsSome(returned) /\ call.op = "search") =>
        /\ ~Val(returned).raised
        /\ Val(returned) =
                search(Degraded(call.lexical), call.available, Degraded(call.vector), SearchUnits, call.top_k)

\* a failure of collection.query does degrade: the lexical hits are returned
C13_VectorDegrades ==
    /\ IsSome(returned) /\ call.op = "search"
    /\ call.available
    /\ \A v \in DOMAIN call.vector : call.vector[v].raises
    /\ ~Val(returned).raised
    /\ Len(Val(returned).results) = 2

----------------------------------------------------------------------------
(* Properties of parse_query_context: signals, filters, intent, inheritance
   (SpecParse) *)

\* the words of a text: its maximal runs of characters other than blanks
Words(text) ==
    {SubSeq(text, p[1], p[2]) :
        p \in {p \in (DOMAIN text) \X (DOMAIN text) :
                /\ p[1] <= p[2]
                /\ \A i \in p[1]..p[2] : ~IsSpace(text[i])
                /\ (p[1] = 1 \/ IsSpace(text[p[1] - 1]))
                /\ (p[2] = Len(text) \/ IsSpace(text[p[2] + 1]))}}

\* the message as the parser reads it
Lowered(msg) == Lower(_normalize(msg))

\* a word of the message is one of the hints
HasHintWord(msg, hints) == Words(Lowered(msg)) \cap hints # {}

\* the message has no work alias, no section or verse keyword, no number, and
\* no summary, count or follow-up word
NoSignal(msg) ==
    /\ _detect_granth(msg, Granths) = {None}
    /\ ~SearchWords(Lowered(msg), _PRAKRAN_WORDS)
    /\ ~SearchWords(Lowered(msg), _CHOPAI_WORDS)
    /\ \A i \in DOMAIN msg : ~IsDigit(msg[i])
    /\ ~HasHintWord(msg, _SUMMARY_HINTS \cup _COUNT_HINTS \cup _FOLLOWUP_HINTS)

\* the context of a message without any signal
AllNull(q) ==
    /\ q.intent = "general_qa"
    /\ q.granth_name = None /\ q.prakran_number = None
    /\ q.prakran_range_start = None /\ q.prakran_range_end = None
    /\ q.chopai_number = None
    /\ ~q.requires_summary /\ ~q.requires_count /\ ~q.context_carried

\* C14: a message without a work alias, a section or verse keyword or number, a
\* summary or count keyword and a follow-up cue, parsed without client filters,
\* gets intent general_qa, null granth_name, prakran_number, range and
\* chopai_number, and requires_summary, requires_count and context_carried
\* false, whatever the prior state holds.
C14_NoSignalAllNull ==
    (/\ IsSome(returned) /\ call.op = "parse_query_context"
     /\ call.filter_granth = None /\ call.filter_prakran = None
     /\ NoSignal(call.message))
        => AllNull(Val(returned))

\* messages without any signal that do get the all-null context
C14_PlainIsAllNull ==
    /\ IsSome(returned) /\ call.op = "parse_query_context"
    /\ call.filter_granth = None /\ call.filter_prakran = None
    /\ NoSignal(call.message)
    /\ PriorHoldsWorkAndSection(call.prior)
    /\ AllNull(Val(returned))


\* the work filter as the parser reads it: stripped, and absent when blank
WorkFilter(filter_granth) ==
    IF TruthyStr(filter_granth) /\ Strip(Val(filter_granth)) # << >>
    THEN Some(Strip(Val(filter_granth))) ELSE None

\* C15: when the client supplies a non-blank work filter, the returned granth_name
\* equals that filter, whatever work the message names and whatever the prior
\* state holds.
C15_FilterIsTheWork ==
    (/\ IsSome(returned) /\ call.op = "parse_query_context"
     /\ IsSome(WorkFilter(call.filter_granth)))
        => Val(returned).granth_name = WorkFilter(call.filter_granth)

\* the filter names one work, the message another and the prior state a work too
C15_Witness ==
    /\ IsSome(returned) /\ call.op = "parse_query_context"
    /\ IsSome(WorkFilter(call.filter_granth))
    /\ \E d \in _detect_granth(call.message, Granths) :
            IsSome(d) /\ d # WorkFilter(call.filter_granth)
    /\ IsSome(call.prior.granth_name)
    /\ Val(returned).granth_name = WorkFilter(call.filter_granth)


\* the range and the single section number the message itself yields
MessageRange(msg) == _extract_prakran_range(Lowered(msg))

MessageSection(msg) ==
    IF IsSome(MessageRange(msg)) THEN None ELSE _extract_single_prakran_number(Lowered(msg))

\* C16: the section number of the client's filter becomes prakran_number only when
\* the message yielded neither a single section number nor a range: a number of
\* the message stays, and when the message yields a range the filter's number
\* never appears.
C16_FilterSectionOnlyAlone ==
    (/\ IsSome(returned) /\ call.op = "parse_query_context"
     /\ IsSome(FilterSection(call.filter_prakran)))
        => /\ IsSome(MessageSection(call.message))
                => Val(returned).prakran_number = MessageSection(call.message)
           /\ IsSome(MessageRange(call.message))
                => /\ Val(returned).prakran_number # FilterSection(call.filter_prakran)
                   /\ Val(returned).prakran_range_start = Some(Val(MessageRange(call.message))[1])
           /\ Val(returned).prakran_number = FilterSection(call.filter_prakran)
                => ~IsSome(MessageSection(call.message)) /\ ~IsSome(MessageRange(call.message))

\* a message with a range, one with a section number of its own and one with
\* neither, each parsed with the filter: only the last takes the filter's number
C16_RangeWithFilter ==
    /\ IsSome(returned) /\ call.op = "parse_query_context"
    /\ IsSome(FilterSection(call.filter_prakran))
    /\ IsSome(MessageRange(call.message))
    /\ Val(returned).prakran_number = None

C16_Witness ==
    /\ IsSome(returned) /\ call.op = "parse_query_context"
    /\ IsSome(FilterSection(call.filter_prakran))
    /\ ~IsSome(MessageSection(call.message)) /\ ~IsSome(MessageRange(call.message))
    /\ IsSome(call.prior.prakran_number)
    /\ Val(returned).prakran_number = FilterSection(call.filter_prakran)


\* the count and summary words and the keywords of the message
CountHint(msg) ==
    _has_any_token(Lowered(msg), _COUNT_HINTS) /\ SearchWords(Lowered(msg), _CHOPAI_WORDS)

SummaryHint(msg) == _has_any_token(Lowered(msg), _SUMMARY_HINTS)

AsksWord(msg) ==
    SearchWords(Lowered(msg), _CHOPAI_WORDS) \/ SearchWords(Lowered(msg), _PRAKRAN_WORDS)

\* the intent by the order of priority, read from the returned context
IntentOf(msg, q) ==
    IF CountHint(msg) THEN "count_chopai"
    ELSE IF IsSome(q.chopai_number) /\ AsksWord(msg) THEN "specific_chopai"
    ELSE IF IsSome(q.prakran_range_start) THEN "prakran_range_summary"
    ELSE IF IsSome(q.prakran_number) /\ SummaryHint(msg) THEN "prakran_summary"
    ELSE "general_qa"

\* C17: the intent follows a fixed order: a count keyword with a verse keyword
\* gives count_chopai; else a verse number with a verse or section keyword gives
\* specific_chopai; else a range in the context gives prakran_range_summary; else
\* a single section number in the context with a summary keyword gives
\* prakran_summary; else general_qa. requires_count is true exactly when the
\* intent is count_chopai.
C17_IntentByPriority ==
    (IsSome(returned) /\ call.op = "parse_query_context")
        => /\ Val(returned).intent = IntentOf(call.message, Val(returned))
           /\ Val(returned).requires_count <=> Val(returned).intent = "count_chopai"

\* the part of C17 that holds: requires_count exactly for count_chopai
C17_CountFlag ==
    (IsSome(returned) /\ call.op = "parse_query_context")
        => (Val(returned).requires_count <=> Val(returned).intent = "count_chopai")

\* the order holds when nothing is inherited from the prior state
C17_OrderWithoutCarry ==
    (IsSome(returned) /\ call.op = "parse_query_context" /\ ~Val(returned).context_carried)
        => Val(returned).intent = IntentOf(call.message, Val(returned))

\* a follow-up inherits a section number, carries a summary word, and is
\* classified as a general question
C17_InheritedSectionUnclassified ==
    /\ IsSome(returned) /\ call.op = "parse_query_context"
    /\ call.filter_prakran = None
    /\ HasHintWord(call.message, _FOLLOWUP_HINTS) /\ SummaryHint(call.message)
    /\ Val(returned).prakran_number = call.prior.prakran_number
    /\ IsSome(Val(returned).prakran_number)
    /\ Val(returned).intent = "general_qa"


\* the range of the prior state, as the returned context would hold it
PriorRange(prior) == <<prior.prakran_range_start, prior.prakran_range_end>>

\* the returned context holds a range that the message did not yield
RangeInherited(msg, q) == ~IsSome(MessageRange(msg)) /\ IsSome(q.prakran_range_start)

\* the returned context holds a section number that neither the message nor the
\* filter yielded
SectionInherited(msg, filter_prakran, q) ==
    /\ ~IsSome(MessageSection(msg)) /\ ~IsSome(FilterSection(filter_prakran))
    /\ IsSome(q.prakran_number)

\* C18: a section range is inherited from the prior state only when the message
\* yields no range itself, contains a section keyword and contains a follow-up
\* cue; a single section number is inherited only when the message and the filter
\* yield no section number and no range was parsed.
C18_InheritOnlyWhen ==
    (IsSome(returned) /\ call.op = "parse_query_context")
        => /\ RangeInherited(call.message, Val(returned))
                => /\ <<Val(returned).prakran_range_start, Val(returned).prakran_range_end>>
                        = PriorRange(call.prior)
                   /\ SearchWords(Lowered(call.message), _PRAKRAN_WORDS)
                   /\ HasHintWord(call.message, _FOLLOWUP_HINTS)
           /\ (IsSome(MessageSection(call.message)) \/ IsSome(FilterSection(call.filter_prakran))
                    \/ IsSome(MessageRange(call.message)))
                => Val(returned).prakran_number \in
                        {None, MessageSection(call.message), FilterSection(call.filter_prakran)}

\* the same with the cue as the parser tests it, and the part on the single number
C18_InheritOnlyWhenCueFound ==
    (IsSome(returned) /\ call.op = "parse_query_context")
        => /\ RangeInherited(call.message, Val(returned))
                => /\ SearchWords(Lowered(call.message), _PRAKRAN_WORDS)
                   /\ _mentions_followup(Lowered(call.message))
           /\ SectionInherited(call.message, call.filter_prakran, Val(returned))
                => /\ Val(returned).prakran_number = call.prior.prakran_number
                   /\ ~IsSome(MessageRange(call.message))

\* a range inherited by a message with a section keyword and a cue word
C18_RangeInherited ==
    /\ IsSome(returned) /\ call.op = "parse_query_context"
    /\ RangeInherited(call.message, Val(returned))
    /\ HasHintWord(call.message, _FOLLOWUP_HINTS)

----------------------------------------------------------------------------
(* _detect_granth on messages that name several works (SpecDetect) *)

\* names of works as users write them, and a word that names none
DetectTokens ==
    {<<"s", "h", "r", "i", " ", "s", "i", "n", "g", "a", "a", "r">>, <<"s", "i", "n", "g", "a", "a", "r">>, <<"s", "i", "n", "g", "a", "r">>, <<"s", "r", "i", "n", "g", "a", "r">>,
     <<"s", "h", "r", "i", " ", "k", "i", "r", "a", "n", "t", "a", "n">>, <<"k", "i", "r", "a", "n", "t", "a", "n">>, <<"k", "i", "r", "t", "a", "n">>, <<"h", "e", "l", "l", "o">>}

DetectMessages ==
    DetectTokens \cup {a \o <<" ">> \o b : a \in DetectTokens, b \in DetectTokens}

\* the work lists of the corpus: both orders, and a single work
DetectGranths == {Granths, <<Granths[2], Granths[1]>>, <<Granths[2]>>}

DetectCalls ==
    {[op |-> "_detect_granth", message |-> m, granths |-> g] :
        m \in DetectMessages, g \in DetectGranths}

InitDetect == NoTurn /\ llm_enabled = FALSE /\ call \in DetectCalls /\ returned = None

\* one call of _detect_granth; the alias sets are iterated in an order that
\* differs from one process to the next
Detect ==
    /\ call.op = "_detect_granth"
    /\ returned = None
    /\ \E g \in _detect_granth(call.message, call.granths) : returned' = Some(g)
    /\ UNCHANGED <<session, llm_enabled, message, granth_filter, prakran_filter, top_k,
                   prior_context, query_context, constrained, citations, not_found, call>>

SpecDetect == InitDetect /\ [][Detect]_vars

\* the aliases of a work that occur in the normalized message
Occurring(text, granth) == {a \in _granth_aliases(granth) : Contains(_norm_key(text), a)}

\* the works of the list that own an alias of the greatest length occurring
LongestOwners(text, granths) ==
    LET works == Range(granths)
        lengths == UNION {{Len(a) : a \in Occurring(text, g)} : g \in works}
    IN  {g \in works : \E a \in Occurring(text, g) : \A n \in lengths : Len(a) >= n}

\* aliases of several works of the list occur in the message
SeveralWorksOccur(text, granths) ==
    Cardinality({g \in Range(granths) : Occurring(text, g) # {}}) > 1

\* C19: when aliases of several known works occur in the normalized message,
\* _detect_granth returns the work that owns the longest alias occurring in the
\* message, and the same message and work list always give the same result.
C19_LongestAliasAlways ==
    (/\ IsSome(returned) /\ call.op = "_detect_granth"
     /\ SeveralWorksOccur(call.message, call.granths))
        => /\ Val(returned) \in {Some(g) : g \in LongestOwners(call.message, call.granths)}
           /\ Cardinality(_detect_granth(call.message, call.granths)) = 1

\* messages naming two works that do get the owner of the longest alias, the
\* same at every call
C19_LongestAliasReturned ==
    /\ IsSome(returned) /\ call.op = "_detect_granth"
    /\ SeveralWorksOccur(call.message, call.granths)
    /\ Val(returned) \in {Some(g) : g \in LongestOwners(call.message, call.granths)}
    /\ Cardinality(_detect_granth(call.message, call.granths)) = 1

\* with one work named the result is that work, at every call
C19_OneWorkNamed ==
    (/\ IsSome(returned) /\ call.op = "_detect_granth"
     /\ ~SeveralWorksOccur(call.message, call.granths))
        => Cardinality(_detect_granth(call.message, call.granths)) = 1

----------------------------------------------------------------------------
(* reciprocal_rank_fusion: ranks, sums and order (SpecFusion) *)

\* the ids of a stream
StreamIds(ranked) == {ranked[i][1].id : i \in DOMAIN ranked}

\* the highest-scored occurrence of unit id in a stream that holds it, the
\* earliest one among equals
BestOccurrence(ranked, id) ==
    CHOOSE i \in DOMAIN ranked :
        /\ ranked[i][1].id = id
        /\ \A j \in DOMAIN ranked :
                ranked[j][1].id = id
                    => \/ RLess(ranked[j][2], ranked[i][2])
                       \/ REq(ranked[j][2], ranked[i][2]) /\ i <= j

\* the 1-based rank of unit id among the best occurrences of a stream
BestRank(ranked, id) ==
    1 + Cardinality({other \in StreamIds(ranked) \ {id} :
            LET o == BestOccurrence(ranked, other)
                i == BestOccurrence(ranked, id)
            IN  \/ RLess(ranked[i][2], ranked[o][2])
                \/ REq(ranked[i][2], ranked[o][2]) /\ o < i})

\* what a stream adds to the fused score of unit id
StreamShare(ranked, id, k) ==
    IF id \in StreamIds(ranked) THEN <<1, k + BestRank(ranked, id)>> ELSE RZero

\* C20: reciprocal_rank_fusion deduplicates each stream by unit id keeping its
\* highest-scored occurrence and ranks it 1-based by descending score; the fused
\* score of a unit is the sum of 1/(k + rank) over the streams that contain it,
\* and the output lists every unit exactly once in descending fused-score order.
C20_RanksSumsOrder ==
    (IsSome(returned) /\ call.op = "reciprocal_rank_fusion") =>
        LET fused == Val(returned)
            present == StreamIds(call.lexical) \cup StreamIds(call.vector)
        IN  /\ Len(fused) = Cardinality(present)
            /\ \A id \in present : Cardinality({r \in DOMAIN fused : fused[r].unit.id = id}) = 1
            /\ \A r \in DOMAIN fused :
                    LET id == fused[r].unit.id
                    IN  /\ id \in present
                        /\ REq(fused[r].score,
                               RAdd(StreamShare(call.lexical, id, call.k),
                                    StreamShare(call.vector, id, call.k)))
                        /\ fused[r].unit \in
                                {s[BestOccurrence(s, id)][1] :
                                    s \in {t \in {call.lexical, call.vector} : id \in StreamIds(t)}}
            /\ \A r \in 1..(Len(fused) - 1) : ~RLess(fused[r].score, fused[r + 1].score)

\* a stream holds a unit twice with another unit between the two scores, the
\* other stream ranks the two units the same way, and the fused list holds each
\* once: 2/(k + 1), then 2/(k + 2)
C20_Witness ==
    /\ IsSome(returned) /\ call.op = "reciprocal_rank_fusion"
    /\ call.lexical \in RepeatStreams
    /\ Len(call.vector) = 2
    /\ StreamIds(call.vector) = StreamIds(call.lexical)
    /\ Len(Val(returned)) = 2
    /\ REq(Val(returned)[1].score, <<2, call.k + 1>>)
    /\ REq(Val(returned)[2].score, <<2, call.k + 2>>)

----------------------------------------------------------------------------
(* RetrievalService.search: the scores returned (SpecSearch) *)

\* the fused list that search re-ranks, for a call whose lexical adapter answers
SearchFused(lexical, available, vector, by_id) ==
    LET resolved(hits) ==
            LET known == {i \in DOMAIN hits : \E u \in by_id : u.id = hits[i][1]}
            IN  [r \in DOMAIN AtPositions(hits, known) |->
                    <<CHOOSE u \in by_id : u.id = AtPositions(hits, known)[r][1],
                      AtPositions(hits, known)[r][2]>>]
    IN  reciprocal_rank_fusion(
            Extend([v \in DOMAIN lexical |-> lexical[v].hits]),
            IF available
            THEN Extend([v \in DOMAIN vector |->
                            IF vector[v].raises THEN << >> ELSE resolved(vector[v].hits)])
            ELSE << >>,
            50)

\* the fused score of unit id in a fused list that holds it
FusedScore(fused, id) == fused[CHOOSE r \in DOMAIN fused : fused[r].unit.id = id].score

\* search answered with a list
SearchAnswered == IsSome(returned) /\ call.op = "search" /\ ~Val(returned).raised

\* C21: for every unit returned by RetrievalService.search, the returned score
\* equals its fused RRF score multiplied by its readability multiplier (0.35 when
\* the garbled ratio is at least 3%, 0.60 when at least 1.5%, else 1.0), and the
\* results are ordered descending by that product.
C21_ScoreIsProduct ==
    SearchAnswered =>
        LET results == Val(returned).results
            fused == SearchFused(call.lexical, call.available, call.vector, SearchUnits)
        IN  /\ \A r \in DOMAIN results :
                    REq(results[r].score,
                        RMul(FusedScore(fused, results[r].unit.id),
                             readability_multiplier(results[r].unit)))
            /\ \A r \in 1..(Len(results) - 1) :
                    ~RLess(RMul(FusedScore(fused, results[r].unit.id),
                                readability_multiplier(results[r].unit)),
                           RMul(FusedScore(fused, results[r + 1].unit.id),
                                readability_multiplier(results[r + 1].unit)))

\* what holds: the order is by the product, the score returned is the fused one
C21_OrderedByProduct ==
    SearchAnswered =>
        LET results == Val(returned).results
            fused == SearchFused(call.lexical, call.available, call.vector, SearchUnits)
        IN  /\ \A r \in DOMAIN results :
                    REq(results[r].score, FusedScore(fused, results[r].unit.id))
            /\ \A r \in 1..(Len(results) - 1) :
                    ~RLess(ReadableScore(results[r]), ReadableScore(results[r + 1]))

\* the multipliers of the three passages: 1, 0.35 and 0.60
C21_Multipliers ==
    /\ REq(readability_multiplier(SearchUnit("A")), <<1, 1>>)
    /\ REq(readability_multiplier(SearchUnit("B")), <<35, 100>>)
    /\ REq(readability_multiplier(SearchUnit("C")), <<60, 100>>)

\* a garbled unit is returned behind a readable one that it outranks in the
\* fused list, with its fused score
C21_DemotedKeepsFusedScore ==
    /\ SearchAnswered
    /\ \E r \in DOMAIN Val(returned).results :
            /\ r > 1
            /\ RLess(readability_multiplier(Val(returned).results[r].unit), <<1, 1>>)
            /\ RLess(Val(returned).results[r - 1].score, Val(returned).results[r].score)

----------------------------------------------------------------------------
(* ChatService._agentic_retrieve: the loop over the queries (SpecAgentic) *)

RECURSIVE GCD(_, _)
GCD(a, b) == IF b = 0 THEN a ELSE GCD(b, a % b)

\* the same fraction in lowest terms
RNorm(a) == <<a[1] \div GCD(a[1], a[2]), a[2] \div GCD(a[1], a[2])>>

\* every query weighs the same
SameWeight(query_idx) == <<1, 1>>

\* query_weight = 1.0 / (1.0 + query_idx * 0.35)
query_weight(query_idx) == <<100, 100 + 35 * query_idx>>

\* rank_bonus = 1.0 / (40 + rank)
rank_bonus(rank) == <<1, 40 + rank>>

\* the inner loop: the results of one query, from position rank on, added to the
\* table of <<unit, score>> pairs kept in insertion order
RECURSIVE AccumulateResults(_, _, _, _)
AccumulateResults(table, results, query_idx, rank) ==
    IF rank > Len(results) THEN table
    ELSE LET item == results[rank]
             blended == RNorm(RAdd(RMul(item.score, query_weight(query_idx)), rank_bonus(rank)))
             at == IF \E p \in DOMAIN table : table[p][1].id = item.unit.id
                   THEN CHOOSE p \in DOMAIN table : table[p][1].id = item.unit.id ELSE 0
         IN  AccumulateResults(
                IF at = 0 THEN Append(table, <<item.unit, RNorm(RAdd(RZero, blended))>>)
                ELSE [table EXCEPT ![at] = <<item.unit, RNorm(RAdd(table[at][2], blended))>>],
                results, query_idx, rank + 1)

\* the outer loop: searches[n] is what retrieval.search finds for query n - 1 before
\* its cut to top_k = per_query_limit
RECURSIVE AgenticScores(_, _, _)
AgenticScores(searches, per_query_limit, n) ==
    IF n = 0 THEN << >>
    ELSE AccumulateResults(AgenticScores(searches, per_query_limit, n - 1),
                           Prefix(searches[n], per_query_limit), n - 1, 1)

\* the most queries of a call
MaxQueries == 2

AgenticUnits == {"A", "B", "C"}

\* scores of search results: 459/1722 and twice that
HitScores == {<<459, 1722>>, <<918, 1722>>}

\* what a search finds: up to two units, none twice, the first scored at least
\* as high as the second
ShortResults ==
    {[r \in DOMAIN ids |-> [unit |-> Bare(ids[r]), score |-> IF r = 1 THEN top ELSE <<459, 1722>>]] :
        ids \in {s \in UNION {[1..n -> AgenticUnits] : n \in 0..2} :
                    \A i, j \in DOMAIN s : i # j => s[i] # s[j]},
        top \in HitScores}

LongIds == <<"L1", "L2", "L3", "L4", "L5", "L6", "L7", "L8", "L9">>

\* a search that finds nine units, the one at rank r with score (10 - r)/10 - 1/(40 + r)
LongResult ==
    [r \in 1..9 |-> [unit |-> Bare(LongIds[r]),
                     score |-> <<(10 - r) * (40 + r) - 10, 10 * (40 + r)>>]]

\* the searches of a call: the long result can only be that of the question itself
AgenticSearches ==
    {s \in UNION {[1..n -> ShortResults \cup {LongResult}] : n \in 1..MaxQueries} :
        \A i \in DOMAIN s : i > 1 => s[i] # LongResult}

AgenticCalls ==
    {[op |-> "_agentic_retrieve", searches |-> s, top_k |-> k] :
        s \in AgenticSearches, k \in {1, 5}}

InitAgentic == NoTurn /\ llm_enabled = FALSE /\ call \in AgenticCalls /\ returned = None

AgenticRetrieve ==
    /\ call.op = "_agentic_retrieve"
    /\ returned = None
    /\ returned' =
            Some(_agentic_retrieve(
                    AgenticScores(call.searches, Max(call.top_k * 2, 8), Len(call.searches)),
                    call.top_k, None, None))
    /\ UNCHANGED <<session, llm_enabled, message, granth_filter, prakran_filter, top_k,
                   prior_context, query_context, constrained, citations, not_found, call>>

SpecAgentic == InitAgentic /\ [][AgenticRetrieve]_vars

\* what query n (1-based) returns to the loop
Searched(searches, n, limit_k) == Prefix(searches[n], Max(limit_k * 2, 8))

\* the ids the searches of a call return
SearchedIds(searches, limit_k) ==
    UNION {{Searched(searches, n, limit_k)[r].unit.id : r \in DOMAIN Searched(searches, n, limit_k)} :
            n \in DOMAIN searches}

\* what query n adds to unit id: hitScore / (1 + 0.35 i) + 1 / (40 + r) at its
\* rank r, nothing when the query did not return it
BlendOf(searches, n, limit_k, id) ==
    LET results == Searched(searches, n, limit_k)
    IN  IF \E r \in DOMAIN results : results[r].unit.id = id
        THEN LET r == CHOOSE r \in DOMAIN results : results[r].unit.id = id
             IN  RNorm(RAdd(RMul(results[r].score, <<100, 100 + 35 * (n - 1)>>), <<1, 40 + r>>))
        ELSE RZero

RECURSIVE SumOfBlends(_, _, _, _)
SumOfBlends(searches, n, limit_k, id) ==
    IF n = 0 THEN RZero
    ELSE RNorm(RAdd(SumOfBlends(searches, n - 1, limit_k, id), BlendOf(searches, n, limit_k, id)))

\* C22: the accumulated score of a unit is the sum, over every query index i
\* whose search (limit max(2*topK, 8)) returned it at rank r, of
\* hitScore / (1 + 0.35*i) + 1 / (40 + r); the output is the max(topK, 4) units
\* with the highest accumulated scores in descending order, and a unit returned
\* by several queries never scores less than it would from one of them alone.
C22_SummedBlend ==
    (IsSome(returned) /\ call.op = "_agentic_retrieve") =>
        LET out == Val(returned)
            ids == SearchedIds(call.searches, call.top_k)
            total(id) == SumOfBlends(call.searches, Len(call.searches), call.top_k, id)
            listed == {out[r][1].id : r \in DOMAIN out}
        IN  /\ Len(out) = Min({Cardinality(ids), Max(call.top_k, 4)})
            /\ Cardinality(listed) = Len(out)
            /\ listed \subseteq ids
            /\ \A r \in DOMAIN out :
                    /\ REq(out[r][2], total(out[r][1].id))
                    /\ \A n \in DOMAIN call.searches :
                            ~RLess(out[r][2], BlendOf(call.searches, n, call.top_k, out[r][1].id))
                    /\ \A id \in ids \ listed : ~RLess(out[r][2], total(id))
            /\ \A r \in 1..(Len(out) - 1) : ~RLess(out[r][2], out[r + 1][2])

\* a unit that the second query ranks first passes the unit that the question
\* itself ranks first, because the question found it too
C22_Witness ==
    /\ IsSome(returned) /\ call.op = "_agentic_retrieve"
    /\ Len(call.searches) = 2 /\ Len(call.searches[1]) = 2 /\ Len(call.searches[2]) = 1
    /\ call.searches[2][1].unit.id = call.searches[1][2].unit.id
    /\ Len(Val(returned)) = 2
    /\ Val(returned)[1][1].id = call.searches[1][2].unit.id
    /\ RLess(Val(returned)[2][2], Val(returned)[1][2])

\* nine units found with top_k = 1: eight are read, four returned
C22_CutToFour ==
    /\ IsSome(returned) /\ call.op = "_agentic_retrieve"
    /\ call.top_k = 1
    /\ call.searches[1] = LongResult
    /\ Len(Val(returned)) = 4

----------------------------------------------------------------------------
(* ChatService._merge_reference_hits on any answer of the lookup (SpecMerge) *)

\* _merge_reference_hits when lookup_reference_units answers reference_hits
MergeWith(ranked, q, reference_hits, limit_k) ==
    IF ~has_reference_constraint(q) THEN ranked ELSE MergeHits(ranked, reference_hits, limit_k)

\* the most units the lookup answers with
MaxHits == 12

\* the units that retrieval found and the other units of the work
FoundIds == <<"R1", "R2", "R3", "R4">>

StoredIds ==
    <<"H01", "H02", "H03", "H04", "H05", "H06", "H07", "H08", "H09", "H10", "H11", "H12", "H13",
      "H14", "H15", "H16">>

\* units of the work ShriSingaar
OfWork(id) == Unit(id, Granths[2], << >>, None, None, None, << >>)

\* the aggregated lists: what _agentic_retrieve returns for top_k up to 4, scored
\* above the floors, below them, or both
MergeRanked ==
    {[r \in 1..n |-> <<OfWork(FoundIds[r]), scores[r]>>] :
        n \in {0, 1, 4},
        scores \in {<<<<1, 2>>, <<2, 5>>, <<3, 10>>, <<3, 10>>>>,
                    <<<<1, 2>>, <<1, 10>>, <<1, 20>>, <<1, 25>>>>,
                    <<<<1, 10>>, <<1, 20>>, <<1, 25>>, <<1, 50>>>>}}

\* the answers of the lookup: the first n stored units of the work, or the same
\* with the found units at the odd positions
MergeLookups ==
    {[r \in 1..n |->
        IF mixed /\ r % 2 = 1 /\ (r + 1) \div 2 <= Len(FoundIds)
        THEN OfWork(FoundIds[(r + 1) \div 2]) ELSE OfWork(StoredIds[r])] :
        n \in 0..MaxHits, mixed \in BOOLEAN}

\* a context that names the work, and one without any reference
MergeQueries == {NoQueryContext, [NoQueryContext EXCEPT !.granth_name = Some(Granths[2])]}

MergeCalls ==
    {[op |-> "_merge_reference_hits", ranked |-> ranked, q |-> q, reference_hits |-> hits,
      top_k |-> k] :
        ranked \in MergeRanked, q \in MergeQueries, hits \in MergeLookups, k \in {1, 4}}

InitMerge == NoTurn /\ llm_enabled = FALSE /\ call \in MergeCalls /\ returned = None

MergeReference ==
    /\ call.op = "_merge_reference_hits"
    /\ returned = None
    /\ returned' = Some(MergeWith(call.ranked, call.q, call.reference_hits, call.top_k))
    /\ UNCHANGED <<session, llm_enabled, message, granth_filter, prakran_filter, top_k,
                   prior_context, query_context, constrained, citations, not_found, call>>

SpecMerge == InitMerge /\ [][MergeReference]_vars

\* the score of unit id in a list of <<unit, score>> pairs that holds it
ScoreIn(ranked, id) == ranked[CHOOSE i \in DOMAIN ranked : ranked[i][1].id = id][2]

IdsIn(ranked) == {ranked[i][1].id : i \in DOMAIN ranked}

\* the floor of the lookup hit at rank r: 0.25 + 1/(30 + r)
FloorAt(r) == <<(30 + r) + 4, 4 * (30 + r)>>

\* C23: the exact-lookup hit at rank r receives the floor 0.25 + 1/(30 + r), the
\* merged score of a unit is max(existing score, floor), and no unit that was in
\* the aggregated list ends up in the output with a score lower than it had;
\* with an unconstrained context the input is returned unchanged.
C23_FloorNeverLowers ==
    (IsSome(returned) /\ call.op = "_merge_reference_hits") =>
        LET out == Val(returned)
            hit(id) == {r \in DOMAIN call.reference_hits : call.reference_hits[r].id = id}
            existing(id) == IF id \in IdsIn(call.ranked) THEN ScoreIn(call.ranked, id) ELSE RZero
        IN  IF ~has_reference_constraint(call.q) THEN out = call.ranked
            ELSE \A i \in DOMAIN out :
                    LET id == out[i][1].id
                    IN  /\ id \in IdsIn(call.ranked) => ~RLess(out[i][2], ScoreIn(call.ranked, id))
                        /\ hit(id) = {} => REq(out[i][2], existing(id))
                        /\ \A r \in hit(id) :
                                REq(out[i][2],
                                    IF RLess(existing(id), FloorAt(r)) THEN FloorAt(r)
                                    ELSE existing(id))

\* found units scored above and below the floor are both among the lookup hits:
\* one keeps its score, the other is raised to the floor
C23_Witness ==
    /\ IsSome(returned) /\ call.op = "_merge_reference_hits"
    /\ has_reference_constraint(call.q)
    /\ \E i, j \in DOMAIN Val(returned) :
            /\ Val(returned)[i][1].id = "R1" /\ REq(Val(returned)[i][2], <<1, 2>>)
            /\ Val(returned)[j][1].id = "R2" /\ REq(Val(returned)[j][2], FloorAt(3))
            /\ \E k \in DOMAIN call.ranked :
                    /\ call.ranked[k][1].id = "R2"
                    /\ RLess(call.ranked[k][2], FloorAt(3))

\* an unconstrained context gives the list back
C23_UnconstrainedUnchanged ==
    /\ IsSome(returned) /\ call.op = "_merge_reference_hits"
    /\ ~has_reference_constraint(call.q)
    /\ Len(call.ranked) = 4 /\ Len(call.reference_hits) = MaxHits
    /\ Val(returned) = call.ranked


\* C27: _merge_reference_hits never evicts a retrieval hit: for a constrained
\* context, every unit of the aggregated input list (at most max(topK, 4)
\* entries) is still in the merged output, however many lookup hits there are.
C27_NoHitEvicted ==
    (/\ IsSome(returned) /\ call.op = "_merge_reference_hits"
     /\ has_reference_constraint(call.q)
     /\ Len(call.ranked) <= Max(call.top_k, 4))
        => IdsIn(call.ranked) \subseteq IdsIn(Val(returned))

\* with no more lookup hits than the cap leaves room for, every found unit stays
C27_RoomForAll ==
    (/\ IsSome(returned) /\ call.op = "_merge_reference_hits"
     /\ Cardinality(IdsIn(call.ranked) \cup {call.reference_hits[r].id : r \in DOMAIN call.reference_hits})
            <= Max(call.top_k * 2, 10))
        => IdsIn(call.ranked) \subseteq IdsIn(Val(returned))

\* all found units are evicted: the output is ten lookup hits
C27_AllEvicted ==
    /\ IsSome(returned) /\ call.op = "_merge_reference_hits"
    /\ Len(call.ranked) = 4
    /\ IdsIn(call.ranked) \cap IdsIn(Val(returned)) = {}
    /\ Len(Val(returned)) = 10

----------------------------------------------------------------------------
(* The ambiguity guard on a section range (SpecRetrieval) *)

\* the turn asked for a range of sections, not for a section or a verse, and no
\* work was supplied, detected or inherited
UnanchoredRange(q) ==
    /\ IsSome(q.prakran_range_start) /\ IsSome(q.prakran_range_end)
    /\ ~IsSome(q.prakran_number) /\ ~IsSome(q.chopai_number)
    /\ ~IsSome(q.granth_name)

\* C24: when a section range (rather than a single section or a verse) is
\* requested, no work name was supplied, detected or inherited, and the surviving
\* candidates span more than one work, the whole result set of the turn is
\* discarded.
C24_AmbiguousRangeIsEmpty ==
    (/\ IsSome(session)
     /\ UnanchoredRange(query_context)
     /\ Cardinality(WorksOf(constrained)) >= 2)
        => (citations = << >> /\ not_found = TRUE)

\* the turn cites units of two works for a range without a work
C24_TwoWorksCited ==
    /\ IsSome(session)
    /\ UnanchoredRange(query_context)
    /\ Cardinality(WorksOf(citations)) >= 2

----------------------------------------------------------------------------
(* _diversify_reference_results: the order of the output (SpecDiversify) *)

\* the call is for a range of sections
IsRangeCall == IsSome(call.q.prakran_range_start) /\ IsSome(call.q.prakran_range_end)

\* the candidates of a sorted list that the primary list admits: those that count
\* for a requested section for which fewer than two candidates stand before them
AdmittedIn(sorted_pairs, requested) ==
    {i \in DOMAIN sorted_pairs :
        /\ IsSome(FirstMatched(sorted_pairs[i][1], requested))
        /\ Cardinality({j \in 1..(i - 1) :
                FirstMatched(sorted_pairs[j][1], requested)
                    = FirstMatched(sorted_pairs[i][1], requested)}) < 2}

\* the scores of a list do not rise
Descending(pairs) == \A r \in 1..(Len(pairs) - 1) : ~RLess(pairs[r][2], pairs[r + 1][2])

\* C25: for a range query the output of _diversify_reference_results is the
\* primary-admitted candidates in descending score order followed by the overflow
\* candidates in descending score order, cut to max_items; no candidate appears
\* twice and the length is min(number of candidates, max_items). For a query
\* without a range the output is the max_items highest-scored candidates.
C25_PrimaryThenOverflow ==
    (IsSome(returned) /\ call.op = "_diversify_reference_results") =>
        LET out == Val(returned).result
            sorted_pairs == SortDescBy(call.ranked_pairs, PairScore)
            admitted == AdmittedIn(sorted_pairs, prakran_numbers(call.q, 24))
            primary == AtPositions(sorted_pairs, admitted)
            overflow == AtPositions(sorted_pairs, DOMAIN sorted_pairs \ admitted)
        IN  /\ Len(out) = Min({Len(call.ranked_pairs), call.max_items})
            /\ Cardinality({out[r][1].id : r \in DOMAIN out}) = Len(out)
            /\ Descending(sorted_pairs) /\ Descending(primary) /\ Descending(overflow)
            /\ IF IsRangeCall THEN out = Prefix(primary \o overflow, call.max_items)
               ELSE out = Prefix(sorted_pairs, call.max_items)

\* a range call whose output holds the whole primary list and then overflow
\* candidates, the first of which scores above the last of the primary list
C25_Witness ==
    /\ IsSome(returned) /\ call.op = "_diversify_reference_results"
    /\ IsRangeCall
    /\ Len(Val(returned).primary) > 0
    /\ Len(Val(returned).result) = call.max_items
    /\ Len(Val(returned).result) > Len(Val(returned).primary)
    /\ RLess(Val(returned).result[Len(Val(returned).primary)][2],
             Val(returned).result[Len(Val(returned).primary) + 1][2])

\* the primary list reaches max_items and nothing of overflow is returned
C25_StopsAtCap ==
    /\ IsSome(returned) /\ call.op = "_diversify_reference_results"
    /\ IsRangeCall
    /\ Val(returned).result = Val(returned).primary
    /\ Len(Val(returned).result) = call.max_items
    /\ Len(call.ranked_pairs) > call.max_items

\* a call without a range returns the highest-scored candidates
C25_NoRange ==
    /\ IsSome(returned) /\ call.op = "_diversify_reference_results"
    /\ ~IsRangeCall
    /\ Len(Val(returned).result) = call.max_items

----------------------------------------------------------------------------
(* Two requests of one session in the worker threads of the chat endpoint
   (SpecConcurrent).  call.stored is the row of session_context, call.before the
   row before the two requests; call.turns holds, for each request, its message,
   how far respond has come and the state it is about to write. *)

ConcurrentMessages == {<<"s", "i", "n", "g", "a", "r">>, <<"p", "r", "a", "k", "r", "a", "n", " ", "5">>, <<"c", "h", "a", "u", "p", "a", "i", " ", "4">>, <<"h", "e", "l", "l", "o">>}

\* the row before the two requests: none, or a work with a section
StoredBefore == {None, Some([EmptySessionContext EXCEPT !.granth_name = Some(Granths[1]),
                                                      !.prakran_number = Some(7)])}

Waiting(msg) == [message |-> msg, pc |-> "start", query |-> NoQueryContext, updated |-> None]

InitConcurrent ==
    /\ NoTurn /\ llm_enabled = FALSE /\ returned = None
    /\ \E before \in StoredBefore, first \in ConcurrentMessages, second \in ConcurrentMessages :
            call = [op |-> "chat", before |-> before, stored |-> before,
                    turns |-> <<Waiting(first), Waiting(second)>>]

\* respond up to next_session_context: get_session_context in a transaction of
\* its own, then parse_query_context against what was read
ReadContext(t) ==
    /\ call.op = "chat"
    /\ call.turns[t].pc = "start"
    /\ \E q \in parse_query_context(call.turns[t].message, Granths,
                                    parse_session_context(call.stored), None, None) :
            call' = [call EXCEPT
                        !.turns[t].pc = "parsed",
                        !.turns[t].query = q,
                        !.turns[t].updated =
                            Some(next_session_context(parse_session_context(call.stored), q))]
    /\ UNCHANGED <<session, llm_enabled, message, granth_filter, prakran_filter, top_k,
                   prior_context, query_context, constrained, citations, not_found, returned>>

\* _persist_session_context: upsert_session_context writes every column
PersistContext(t) ==
    /\ call.op = "chat"
    /\ call.turns[t].pc = "parsed"
    /\ call' = [call EXCEPT !.turns[t].pc = "done", !.stored = call.turns[t].updated]
    /\ UNCHANGED <<session, llm_enabled, message, granth_filter, prakran_filter, top_k,
                   prior_context, query_context, constrained, citations, not_found, returned>>

NextConcurrent == \E t \in 1..2 : ReadContext(t) \/ PersistContext(t)

SpecConcurrent == InitConcurrent /\ [][NextConcurrent]_vars

\* the rows a turn with message msg may leave when it runs alone on row
RowsAfter(row, msg) ==
    {Some(next_session_context(parse_session_context(row), q)) :
        q \in parse_query_context(msg, Granths, parse_session_context(row), None, None)}

\* the rows that the two turns leave when one runs after the other
SerialRows(row, first, second) == UNION {RowsAfter(mid, second) : mid \in RowsAfter(row, first)}

BothDone == call.op = "chat" /\ \A t \in 1..2 : call.turns[t].pc = "done"

\* a field that the turn resolved, by its message or by inheritance
Resolved(turn) ==
    {f \in SessionFields :
        IF f = "granth_name" THEN TruthyStr(turn.query[f]) ELSE IsSome(turn.query[f])}

\* C26: two turns of one session processed concurrently leave a stored state
\* equal to the result of applying the two turns one after the other in some
\* order, and no field resolved by either turn is lost.
C26_Serializable ==
    BothDone =>
        /\ call.stored \in
                SerialRows(call.before, call.turns[1].message, call.turns[2].message)
                    \cup SerialRows(call.before, call.turns[2].message, call.turns[1].message)
        /\ \A t \in 1..2 : \A f \in Resolved(call.turns[t]) : IsSome(Val(call.stored)[f])

\* turns that do not overlap leave a serial result
C26_OneAfterTheOther ==
    /\ BothDone
    /\ call.turns[1].message # call.turns[2].message
    /\ Resolved(call.turns[1]) # {} /\ Resolved(call.turns[2]) # {}
    /\ call.stored \in SerialRows(call.before, call.turns[1].message, call.turns[2].message)

\* overlapping turns: the work that one turn resolved is no longer stored
C26_WorkLost ==
    /\ BothDone
    /\ \E t \in 1..2 : "granth_name" \in Resolved(call.turns[t])
    /\ ~IsSome(Val(call.stored).granth_name)

----------------------------------------------------------------------------
(* The stored session state over time (Spec, SpecConcurrent) *)

\* a field of the stored row, null when there is no row
FieldOf(row, field) == IF IsSome(row) THEN Val(row)[field] ELSE None

\* C28: across any sequence of turns in a session, a SessionContextState field
\* that has become non-null never becomes null again, and it changes only in a
\* turn whose QueryContext carries a non-null value for that field.
C28_NeverNullAgain ==
    [][call.op = "chat" =>
        \A field \in SessionFields :
            /\ IsSome(FieldOf(call.stored, field)) => IsSome(FieldOf(call'.stored, field))
            /\ \A t \in 1..2 :
                    (/\ call.turns[t].pc = "parsed" /\ call'.turns[t].pc = "done"
                     /\ FieldOf(call'.stored, field) # FieldOf(call.stored, field))
                        => IsSome(call.turns[t].query[field])]_vars

\* the same for turns that are processed one after the other
C28_SequentialTurns ==
    [][\A field \in SessionFields :
            /\ IsSome(FieldOf(session, field)) => IsSome(FieldOf(session', field))
            /\ FieldOf(session', field) # FieldOf(session, field) => IsSome(query_context'[field])]_vars

\* a later turn without a work, a section or a verse has left the stored fields
\* as they were
C28_FieldsKept ==
    /\ IsSome(session)
    /\ \A field \in SessionFields : ~IsSome(query_context[field])
    /\ \E field \in SessionFields : IsSome(Val(session)[field])
    /\ Val(session) = prior_context

----------------------------------------------------------------------------
(* The verse number and the prior state (SpecParse) *)

\* the verse numbers parse_query_context returns for the arguments of the call
\* when the prior state is replaced by `prior`
VerseNumbersUnder(prior) ==
    {q.chopai_number :
        q \in parse_query_context(call.message, Granths, prior, call.filter_granth,
                                  call.filter_prakran)}

\* C29: parse_query_context never takes the verse number from the prior state:
\* for a fixed message, work list and filters, the returned chopai_number is
\* the same for every prior SessionContextState, even though the state stores
\* a chopai_number.
C29_VerseIndependentOfPrior ==
    (call.op = "parse_query_context" /\ IsSome(returned)) =>
        \A prior \in Priors : VerseNumbersUnder(prior) = {Val(returned).chopai_number}

\* the returned verse number is the one the message holds
C29_VerseFromMessage ==
    (call.op = "parse_query_context" /\ IsSome(returned)) =>
        Val(returned).chopai_number = _extract_chopai_number(Lowered(call.message))

\* the prior state holds a verse number, the call took the work and the section
\* from it, and the returned verse number is null
C29_Witness ==
    /\ call.op = "parse_query_context" /\ IsSome(returned)
    /\ IsSome(call.prior.chopai_number)
    /\ Val(returned).context_carried
    /\ Val(returned).granth_name = call.prior.granth_name
    /\ Val(returned).prakran_number = call.prior.prakran_number
    /\ Val(returned).chopai_number = None

\* the message names a verse other than the one of the prior state, and that
\* is the verse returned
C29_OwnVerse ==
    /\ call.op = "parse_query_context" /\ IsSome(returned)
    /\ IsSome(call.prior.chopai_number)
    /\ IsSome(Val(returned).chopai_number)
    /\ Val(returned).chopai_number # call.prior.chopai_number
    /\ Val(returned).context_carried

----------------------------------------------------------------------------
(* InMemoryRateLimiter under the thread pool (SpecLimiter).

   _check is a plain def, so FastAPI runs it in a worker thread per request.
   The interpreter may switch threads when a call returns: after time.time(),
   after window.popleft() and after len(window).  call.bucket is self.bucket,
   call.workers the position of each worker thread inside _check,
   call.accepted the clock readings of the requests _check let through,
   call.requests the number of requests that have entered _check,
   call.overlapped whether a worker has entered _check while another one was
   inside, and returned the last answer given. *)

\* InMemoryRateLimiter(max_per_minute): the limit of the modelled instance
max_per_minute == 1

\* seconds of the sliding window
WindowSeconds == 60

\* the clock advances in steps of TickSeconds, MaxTicks times
TickSeconds == 35
MaxTicks == 2

\* requests that arrive
MaxRequests == 3

\* worker threads of the pool
WorkerCount == 2
Workers == 1..WorkerCount

\* request.client.host of the requests
Clients == {"10.0.0.1", "10.0.0.2"}

Idle == [pc |-> "idle", identifier |-> "", now |-> 0, length |-> 0]

InitLimiter ==
    /\ NoTurn /\ llm_enabled = FALSE /\ returned = None
    /\ call = [op |-> "rate_limit", clock |-> 0,
               bucket |-> [identifier \in Clients |-> << >>],
               workers |-> [w \in Workers |-> Idle],
               accepted |-> [identifier \in Clients |-> << >>],
               requests |-> 0, overlapped |-> FALSE]

\* time passes
Tick ==
    /\ call.op = "rate_limit"
    /\ call.clock < MaxTicks * TickSeconds
    /\ call' = [call EXCEPT !.clock = @ + TickSeconds]
    /\ UNCHANGED <<session, llm_enabled, message, granth_filter, prakran_filter, top_k,
                   prior_context, query_context, constrained, citations, not_found, returned>>

\* _check up to the loop: identifier, now = time.time(), window = self.bucket[identifier]
ReadClock(w) ==
    /\ call.op = "rate_limit"
    /\ call.workers[w].pc = "idle"
    /\ call.requests < MaxRequests
    /\ \E identifier \in Clients :
            call' = [call EXCEPT
                        !.workers[w] = [pc |-> "prune", identifier |-> identifier,
                                        now |-> call.clock, length |-> 0],
                        !.requests = @ + 1,
                        !.overlapped = @ \/ \E other \in Workers : call.workers[other].pc # "idle"]
    /\ UNCHANGED <<session, llm_enabled, message, granth_filter, prakran_filter, top_k,
                   prior_context, query_context, constrained, citations, not_found, returned>>

\* the condition of the while loop
WindowHeadExpired(window, now) == window # << >> /\ (now - Head(window)) > WindowSeconds

\* one pass of the loop: window.popleft()
PopLeft(w) ==
    /\ call.op = "rate_limit"
    /\ call.workers[w].pc = "prune"
    /\ WindowHeadExpired(call.bucket[call.workers[w].identifier], call.workers[w].now)
    /\ call' = [call EXCEPT !.bucket[call.workers[w].identifier] = Tail(@)]
    /\ UNCHANGED <<session, llm_enabled, message, granth_filter, prakran_filter, top_k,
                   prior_context, query_context, constrained, citations, not_found, returned>>

\* the loop ends and len(window) is taken
TakeLength(w) ==
    /\ call.op = "rate_limit"
    /\ call.workers[w].pc = "prune"
    /\ ~WindowHeadExpired(call.bucket[call.workers[w].identifier], call.workers[w].now)
    /\ call' = [call EXCEPT !.workers[w].pc = "compare",
                            !.workers[w].length = Len(call.bucket[call.workers[w].identifier])]
    /\ UNCHANGED <<session, llm_enabled, message, granth_filter, prakran_filter, top_k,
                   prior_context, query_context, constrained, citations, not_found, returned>>

\* len(window) >= self.max_per_minute: HTTPException 429
Reject(w) ==
    /\ call.op = "rate_limit"
    /\ call.workers[w].pc = "compare"
    /\ call.workers[w].length >= max_per_minute
    /\ call' = [call EXCEPT !.workers[w] = Idle]
    /\ returned' = Some([worker |-> w, identifier |-> call.workers[w].identifier,
                         now |-> call.workers[w].now, status |-> 429])
    /\ UNCHANGED <<session, llm_enabled, message, granth_filter, prakran_filter, top_k,
                   prior_context, query_context, constrained, citations, not_found>>

\* otherwise window.append(now) and the request goes on to the handler
Accept(w) ==
    /\ call.op = "rate_limit"
    /\ call.workers[w].pc = "compare"
    /\ call.workers[w].length < max_per_minute
    /\ call' = [call EXCEPT
                    !.workers[w] = Idle,
                    !.bucket[call.workers[w].identifier] = Append(@, call.workers[w].now),
                    !.accepted[call.workers[w].identifier] = Append(@, call.workers[w].now)]
    /\ returned' = Some([worker |-> w, identifier |-> call.workers[w].identifier,
                         now |-> call.workers[w].now, status |-> 200])
    /\ UNCHANGED <<session, llm_enabled, message, granth_filter, prakran_filter, top_k,
                   prior_context, query_context, constrained, citations, not_found>>

NextLimiter ==
    \/ Tick
    \/ \E w \in Workers : ReadClock(w) \/ PopLeft(w) \/ TakeLength(w) \/ Reject(w) \/ Accept(w)

SpecLimiter == InitLimiter /\ [][NextLimiter]_vars

\* the accepted requests of a client whose clock reading lies in the
\* WindowSeconds from `start` on
AcceptedWithin(identifier, start) ==
    {i \in DOMAIN call.accepted[identifier] :
        /\ call.accepted[identifier][i] >= start
        /\ call.accepted[identifier][i] <= start + WindowSeconds}

\* C30: for every client identifier and every sequence or thread interleaving
\* of requests, at most max_per_minute requests are accepted within any
\* 60-second window (a rejected request adding no entry to the client's
\* window is C30_RejectedAddsNothing).
C30_AtMostMaxPerWindow ==
    call.op = "rate_limit" =>
        \A identifier \in Clients :
            \A i \in DOMAIN call.accepted[identifier] :
                Cardinality(AcceptedWithin(identifier, call.accepted[identifier][i]))
                    <= max_per_minute

\* a request answered 429 leaves every window as it was
C30_RejectedAddsNothing ==
    [][(call.op = "rate_limit" /\ returned' # returned /\ Val(returned').status = 429)
            => call'.bucket = call.bucket]_vars

\* when no call of _check has overlapped another one the bound holds
C30_SerialRequestsBounded ==
    (call.op = "rate_limit" /\ ~call.overlapped) => C30_AtMostMaxPerWindow

\* two workers took the length of the same window before either appended, and
\* both requests were accepted
C30_BothAccepted ==
    /\ call.op = "rate_limit"
    /\ \E identifier \in Clients :
            /\ Len(call.bucket[identifier]) > max_per_minute
            /\ Len(call.accepted[identifier]) > max_per_minute
            /\ call.clock = 0

\* a request is accepted again once the earlier one is more than 60 seconds old
C30_AcceptedAfterExpiry ==
    /\ call.op = "rate_limit"
    /\ \E identifier \in Clients :
            /\ Len(call.accepted[identifier]) = 2
            /\ call.accepted[identifier][2] - call.accepted[identifier][1] > WindowSeconds
    /\ ~call.overlapped

====
